---- MODULE Spec2Model ----
(***************************************************************************)
(* Model of the WebSocket test client and of the message library it shares *)
(* with the chatsurfer-connect service:                                    *)
(*   src/src/ChatSurfer/messages.rs  upstream (ChatSurfer) messages        *)
(*   src/src/messages.rs             client-facing (Edge View) messages    *)
(*   src/src/main.rs, src/src/edge_view/client.rs   the client exchanges   *)
(*                                                                         *)
(* JSON text is modelled at the level of the value tree serde_json reads   *)
(* and writes: a text is either not JSON at all (t = "invalid") or a tree  *)
(* of null / string / integer / float / array / object nodes.  An object   *)
(* is a function from its keys to nodes.                                   *)
(***************************************************************************)
EXTENDS Integers, Sequences, FiniteSets, TLC

VARIABLES
    \* ---- error conversion (parse_error_message, Error constructors)
    epc,        \* position: "recv", "parsed", "built", "sent"
    status,     \* HTTP status code of the failed upstream response
    body,       \* body text of the failed upstream response (JSON tree)
    parsed,     \* result of parse_error_message
    envelope,   \* the Error struct built from it
    wire,       \* the envelope as encoded by Error::try_to_json
    \* ---- request decoding (try_from_json of the four request structs)
    rpc,        \* position: "frame", "decoded"
    reqType,    \* the request struct the frame is decoded as
    frame,      \* the text frame received (JSON tree)
    decoded,    \* result of try_from_json
    \* ---- response encoding (EdgeViewResponseTypes::try_to_json) and back
    xpc,        \* position: "value", "encoded", "decoded"
    respValue,  \* the EdgeViewResponseTypes value: [variant, body]
    encoded,    \* its JSON text
    readBack,   \* the value decoded from that text
    \* ---- rate budget toward the upstream (60 requests per minute)
    windowAge,  \* seconds since the first reservation of the window, -1: none
    reserved,   \* reservations asked for in the current window
    budget,     \* reservations granted in the current window
    issued,     \* requests forwarded to the upstream in the current window
    outcome,    \* outcome of the last reservation: "Granted", "Denied"
    reply,      \* the envelope built locally for the last reservation
    \* ---- one client exchange (ws_connect_send)
    cpc,        \* position in ws_connect_send
    cfn,        \* the function running the exchange: "main" (main.rs
                \* ws_connect_send), "client" (client.rs), "test", ...
    request,    \* the test case: [path, message]
    authHeader, \* the Authorization header of the upgrade request
    connOpen,   \* the WebSocket handshake succeeded
    sendCalls,  \* the frames handed to write.send, in order
    wireOut,    \* the frames write.send accepted (Ok), in order
    reads,      \* how many times read.next() returned
    result,     \* the Option<Message> ws_connect_send returns
    readLog,    \* what read.next() / socket.next() returned, in order
    \* ---- the test harness (run_test_list, the bounded-repeat tests)
    lpc,        \* position in run_test_list / in the repeat test
    args,       \* the command-line flags (cli::Args as main.rs reads it)
    test_list,  \* the test cases still to run
    test_status,        \* verdict of the last test: TRUE, FALSE, None
    total_tests,        \* run_test_list: tests run
    passed_tests,       \* run_test_list: tests passed
    iteration,          \* repeat tests: iterations completed
    number_of_successes, \* repeat tests: iterations answered
    \* ---- the token (build_test_claim, build_jwt)
    tpc,        \* position in build_test_claim
    now,        \* the system clock, seconds
    issueTime,  \* the clock value read for exp
    claims,     \* the EdgeViewClaims fields exp, iat, auth_time
    attachedAt, \* the clock when the token is put on the upgrade request
    \* ---- the keyword filter (KeywordFilter::try_from_vec)
    kpc,        \* position: "input", "done"
    keywords,   \* the Vec<String> given
    filter,     \* the Result<KeywordFilter, anyhow::Error>
    \* ---- the ChatSurfer schema values (constructors, try_from_json)
    spc,        \* position: "input", "built", "decoded"
    sHow,       \* the constructor or decoder applied
    sIn,        \* its input: a seed, or the JSON text given
    sOut,       \* the value built, or the Result of the decoder
    \* ---- tokens over several connections (build_jwt per ws_connect)
    tokens,     \* the identifier claims of the tokens built, in order
    drawn       \* the values Uuid::new_v4 has returned so far

errVars == <<epc, status, body, parsed, envelope, wire>>
reqVars == <<rpc, reqType, frame, decoded>>
respVars == <<xpc, respValue, encoded, readBack>>
rateVars == <<windowAge, reserved, budget, issued, outcome, reply>>
connVars == <<cpc, cfn, request, authHeader, connOpen, sendCalls, wireOut,
              reads, result, readLog>>
testVars == <<lpc, args, test_list, test_status, total_tests, passed_tests,
              iteration, number_of_successes>>
tokenVars == <<tpc, now, issueTime, claims, attachedAt>>
kwVars == <<kpc, keywords, filter>>
schemaVars == <<spc, sHow, sIn, sOut>>
issueVars == <<tokens, drawn>>

notErrVars  == <<reqVars, respVars, rateVars, connVars,
                testVars, tokenVars, kwVars, schemaVars, issueVars>>
notReqVars  == <<errVars, respVars, rateVars, connVars,
                testVars, tokenVars, kwVars, schemaVars, issueVars>>
notRespVars == <<errVars, reqVars, rateVars, connVars,
                testVars, tokenVars, kwVars, schemaVars, issueVars>>
notRateVars == <<errVars, reqVars, respVars, connVars,
                testVars, tokenVars, kwVars, schemaVars, issueVars>>
notConnVars == <<errVars, reqVars, respVars, rateVars,
                testVars, tokenVars, kwVars, schemaVars, issueVars>>
\* the exchange steps are also run by the test harness
notConnTestVars == <<errVars, reqVars, respVars, rateVars, tokenVars, kwVars,
                     schemaVars, issueVars>>
notTokenVars == <<errVars, reqVars, respVars, rateVars, connVars, testVars,
                 kwVars, schemaVars, issueVars>>
notKwVars    == <<errVars, reqVars, respVars, rateVars, connVars, testVars,
                 tokenVars, schemaVars, issueVars>>
notSchemaVars == <<errVars, reqVars, respVars, rateVars, connVars, testVars,
                  tokenVars, kwVars, issueVars>>
notIssueVars == <<errVars, reqVars, respVars, rateVars, connVars, testVars,
                 tokenVars, kwVars, schemaVars>>

vars == <<epc, status, body, parsed, envelope, wire,
          rpc, reqType, frame, decoded,
          xpc, respValue, encoded, readBack,
          windowAge, reserved, budget, issued, outcome, reply,
          cpc, cfn, request, authHeader, connOpen, sendCalls, wireOut,
          reads, result, readLog,
          lpc, args, test_list, test_status, total_tests, passed_tests,
          iteration, number_of_successes,
          tpc, now, issueTime, claims, attachedAt,
          kpc, keywords, filter,
          spc, sHow, sIn, sOut, tokens, drawn>>

----------------------------------------------------------------------------
(* JSON value trees *)

JInvalid   == [t |-> "invalid"]
JNull      == [t |-> "null"]
JStr(s)    == [t |-> "str", v |-> s]
JNum(n)    == [t |-> "num", v |-> n]
JFloat(f)  == [t |-> "float", v |-> f]
JArr(a)    == [t |-> "arr", v |-> a]
JObj(o)    == [t |-> "obj", v |-> o]
JBool(b)   == [t |-> "bool", v |-> b]
Absent     == [t |-> "absent"]

None       == [t |-> "none"]
Some(x)    == [t |-> "some", v |-> x]

Range(s)   == {s[i] : i \in DOMAIN s}
IndexOf(s, x) == CHOOSE i \in DOMAIN s : s[i] = x

U16_MAX == 65535

\* serde: String accepts a JSON string only; u16 an integer in 0..=65535.
IsString(j) == j.t = "str"
IsU16(j)    == j.t = "num" /\ j.v >= 0 /\ j.v <= U16_MAX

\* The fields a derived Deserialize impl sees for a struct whose fields are
\* `order`: from a JSON object by key (unknown keys are ignored, a missing
\* key is Absent), from a JSON array by position (exactly Len(order)
\* elements); any other text is no struct.
StructFields(j, order) ==
    IF j.t = "obj"
    THEN [ok |-> TRUE,
          f  |-> [k \in Range(order) |->
                    IF k \in DOMAIN j.v THEN j.v[k] ELSE Absent]]
    ELSE IF j.t = "arr"
    THEN IF Len(j.v) = Len(order)
         THEN [ok |-> TRUE, f |-> [k \in Range(order) |-> j.v[IndexOf(order, k)]]]
         ELSE [ok |-> FALSE, cause |-> "invalid length"]
    ELSE IF j.t = "invalid"
    THEN [ok |-> FALSE, cause |-> "syntax"]
    ELSE [ok |-> FALSE, cause |-> "invalid type"]

\* The error serde reports for a field that does not fit its type.
StringCause(j) ==
    IF j.t = "absent" THEN "missing field"
    ELSE IF IsString(j) THEN "ok" ELSE "invalid type"

U16Cause(j) ==
    IF j.t = "absent" THEN "missing field"
    ELSE IF IsU16(j) THEN "ok"
    ELSE IF j.t = "num" THEN "invalid value" ELSE "invalid type"

\* The first cause that is not "ok" in a sequence of causes, else "ok".
FirstCause(cs) ==
    IF \A i \in DOMAIN cs : cs[i] = "ok" THEN "ok"
    ELSE cs[CHOOSE i \in DOMAIN cs :
                cs[i] # "ok" /\ \A j \in 1..(i - 1) : cs[j] = "ok"]

\* Vec<String>
IsStringVec(j) == j.t = "arr" /\ \A i \in DOMAIN j.v : IsString(j.v[i])
StringVecCause(j) ==
    IF j.t = "absent" THEN "missing field"
    ELSE IF IsStringVec(j) THEN "ok" ELSE "invalid type"
StringVecOf(j) == [i \in DOMAIN j.v |-> j.v[i].v]
StringVecJson(v) == JArr([i \in DOMAIN v |-> JStr(v[i])])

\* bool
BoolCause(j) ==
    IF j.t = "absent" THEN "missing field"
    ELSE IF j.t = "bool" THEN "ok" ELSE "invalid type"

\* i64 (the model's integers are all in range)
I64Cause(j) ==
    IF j.t = "absent" THEN "missing field"
    ELSE IF j.t = "num" THEN "ok" ELSE "invalid type"

\* Option<String>: null and a missing key are None.
OptStringCause(j) ==
    IF j.t \in {"absent", "null"} THEN "ok"
    ELSE IF IsString(j) THEN "ok" ELSE "invalid type"
OptStringOf(j) == IF j.t \in {"absent", "null"} THEN None ELSE Some(j.v)
OptStringJson(o) == IF o.t = "none" THEN JNull ELSE JStr(o.v)

\* f32.  A value is named by its shortest decimal text, or is one of the
\* non-finite values "NaN", "inf", "-inf".  serde_json writes a non-finite
\* float as null; it reads a number token as f64 and narrows it to f32, so a
\* token beyond the f32 range ("1e39") reads as infinity; null is no f32.
NonFinite == {"NaN", "inf", "-inf"}
F32Json(x) == IF x \in NonFinite THEN JNull ELSE JFloat(x)
F32Cause(j) ==
    IF j.t = "absent" THEN "missing field"
    ELSE IF j.t \in {"float", "num"} THEN "ok" ELSE "invalid type"
F32Of(j) ==
    IF j.t = "float"
    THEN IF j.v = "1e39" THEN "inf" ELSE IF j.v = "-1e39" THEN "-inf" ELSE j.v
    ELSE IF j.v = 0 THEN "0.0" ELSE IF j.v = 1 THEN "1.0" ELSE "integral"

F32VecCause(j) ==
    IF j.t = "absent" THEN "missing field"
    ELSE IF j.t # "arr" THEN "invalid type"
    ELSE FirstCause([i \in DOMAIN j.v |-> F32Cause(j.v[i])])
F32VecOf(j)    == [i \in DOMAIN j.v |-> F32Of(j.v[i])]
F32VecJson(v)  == JArr([i \in DOMAIN v |-> F32Json(v[i])])

F32VecVecCause(j) ==
    IF j.t = "absent" THEN "missing field"
    ELSE IF j.t # "arr" THEN "invalid type"
    ELSE FirstCause([i \in DOMAIN j.v |-> F32VecCause(j.v[i])])
F32VecVecOf(j)    == [i \in DOMAIN j.v |-> F32VecOf(j.v[i])]
F32VecVecJson(v)  == JArr([i \in DOMAIN v |-> F32VecJson(v[i])])

----------------------------------------------------------------------------
(* ChatSurfer/messages.rs: FieldErrorSchema, ErrorCode400, ErrorCode404 *)

FieldErrorKeys ==
    <<"fieldName", "message", "messageArguments", "messageCode", "rejectedValue">>

FieldErrorCause(j) ==
    LET sf == StructFields(j, FieldErrorKeys) IN
    IF ~sf.ok THEN sf.cause
    ELSE FirstCause(<<StringCause(sf.f["fieldName"]),
                      StringCause(sf.f["message"]),
                      StringVecCause(sf.f["messageArguments"]),
                      StringCause(sf.f["messageCode"]),
                      StringCause(sf.f["rejectedValue"])>>)

FieldErrorSchema(j) ==
    LET f == StructFields(j, FieldErrorKeys).f IN
    [field_name        |-> f["fieldName"].v,
     message           |-> f["message"].v,
     message_arguments |-> StringVecOf(f["messageArguments"]),
     message_code      |-> f["messageCode"].v,
     rejected_value    |-> f["rejectedValue"].v]

\* Vec<FieldErrorSchema>
FieldErrorsCause(j) ==
    IF j.t = "absent" THEN "missing field"
    ELSE IF j.t # "arr" THEN "invalid type"
    ELSE FirstCause([i \in DOMAIN j.v |-> FieldErrorCause(j.v[i])])

ErrorCode400Keys == <<"classification", "code", "fieldErrors", "message">>
ErrorCode404Keys == <<"classification", "code", "message">>

\* ErrorCode400::try_from_string: serde_json::from_str::<ErrorCode400>, with
\* the context "Unable to create ErrorCode400 struct from String {source}".
ErrorCode400_try_from_string(source) ==
    LET sf    == StructFields(source, ErrorCode400Keys)
        cause == IF ~sf.ok THEN sf.cause
                 ELSE FirstCause(<<StringCause(sf.f["classification"]),
                                   U16Cause(sf.f["code"]),
                                   FieldErrorsCause(sf.f["fieldErrors"]),
                                   StringCause(sf.f["message"])>>)
    IN  IF cause = "ok"
        THEN [ok  |-> TRUE,
              val |-> [classification |-> sf.f["classification"].v,
                       code           |-> sf.f["code"].v,
                       field_errors   |-> [i \in DOMAIN sf.f["fieldErrors"].v |->
                                             FieldErrorSchema(sf.f["fieldErrors"].v[i])],
                       message        |-> sf.f["message"].v]]
        ELSE [ok      |-> FALSE,
              context |-> "Unable to create ErrorCode400 struct from String",
              source  |-> source,
              cause   |-> cause]

\* ErrorCode404::try_from_string
ErrorCode404_try_from_string(source) ==
    LET sf    == StructFields(source, ErrorCode404Keys)
        cause == IF ~sf.ok THEN sf.cause
                 ELSE FirstCause(<<StringCause(sf.f["classification"]),
                                   U16Cause(sf.f["code"]),
                                   StringCause(sf.f["message"])>>)
    IN  IF cause = "ok"
        THEN [ok  |-> TRUE,
              val |-> [classification |-> sf.f["classification"].v,
                       code           |-> sf.f["code"].v,
                       message        |-> sf.f["message"].v]]
        ELSE [ok      |-> FALSE,
              context |-> "Unable to create ErrorCode404 struct from String",
              source  |-> source,
              cause   |-> cause]

----------------------------------------------------------------------------
(* ChatSurfer/messages.rs: ChatMessageSchema and the structs inside it,   *)
(* each with the JSON its derived Serialize writes (..Json), the error    *)
(* its derived Deserialize reports (..Cause) and the value it reads (..Of) *)

\* RegionSchema
RegionKeys == <<"abbreviation", "bounds", "description", "name", "regionType">>
RegionJson(r) ==
    JObj([abbreviation |-> JStr(r.abbreviation),
          bounds       |-> F32VecJson(r.bounds),
          description  |-> JStr(r.description),
          name         |-> JStr(r.name),
          regionType   |-> JStr(r.region_type)])
RegionCause(j) ==
    LET sf == StructFields(j, RegionKeys) IN
    IF ~sf.ok THEN sf.cause
    ELSE FirstCause(<<StringCause(sf.f["abbreviation"]),
                      F32VecCause(sf.f["bounds"]),
                      StringCause(sf.f["description"]),
                      StringCause(sf.f["name"]),
                      StringCause(sf.f["regionType"])>>)
RegionsCause(j) ==
    IF j.t = "absent" THEN "missing field"
    ELSE IF j.t # "arr" THEN "invalid type"
    ELSE FirstCause([i \in DOMAIN j.v |-> RegionCause(j.v[i])])
RegionOf(j) ==
    LET f == StructFields(j, RegionKeys).f IN
    [abbreviation |-> f["abbreviation"].v,
     bounds       |-> F32VecOf(f["bounds"]),
     description  |-> f["description"].v,
     name         |-> f["name"].v,
     region_type  |-> f["regionType"].v]

\* PointLocation (a struct without fields) and PolygonLocation
PolygonKeys == <<"type", "coordinates">>
PointLocationJson(l) == JObj(<<>>)
PointLocationCause(j) == LET sf == StructFields(j, <<>>) IN
                         IF sf.ok THEN "ok" ELSE sf.cause
PolygonLocationJson(l) ==
    JObj([type |-> JStr(l.type), coordinates |-> F32VecVecJson(l.coordinates)])
PolygonLocationCause(j) ==
    LET sf == StructFields(j, PolygonKeys) IN
    IF ~sf.ok THEN sf.cause
    ELSE FirstCause(<<StringCause(sf.f["type"]),
                      F32VecVecCause(sf.f["coordinates"])>>)
PolygonLocationOf(j) ==
    LET f == StructFields(j, PolygonKeys).f IN
    [type |-> f["type"].v, coordinates |-> F32VecVecOf(f["coordinates"])]

\* PolygonLocation::world_coordinates
world_coordinates ==
    <<<<"90.0", "180.0">>, <<"90.0", "-180.0">>,
      <<"-90.0", "-180.0">>, <<"-90.0", "180.0">>>>

\* enum LocationTypes { Point { location }, Polygon { location } }, written
\* as an object with the variant name as its single key.
LocationTypesJson(a) ==
    IF a.variant = "Point"
    THEN JObj([Point   |-> JObj([location |-> PointLocationJson(a.location)])])
    ELSE JObj([Polygon |-> JObj([location |-> PolygonLocationJson(a.location)])])
LocationTypesCause(j) ==
    IF j.t = "absent" THEN "missing field"
    ELSE IF j.t # "obj" THEN "invalid type"
    ELSE IF Cardinality(DOMAIN j.v) # 1 THEN "invalid value"
    ELSE LET k  == CHOOSE x \in DOMAIN j.v : TRUE
             sf == StructFields(j.v[k], <<"location">>) IN
         IF k \notin {"Point", "Polygon"} THEN "unknown variant"
         ELSE IF ~sf.ok THEN sf.cause
         ELSE IF sf.f["location"].t = "absent" THEN "missing field"
         ELSE IF k = "Point" THEN PointLocationCause(sf.f["location"])
         ELSE PolygonLocationCause(sf.f["location"])
LocationTypesOf(j) ==
    LET k   == CHOOSE x \in DOMAIN j.v : TRUE
        loc == StructFields(j.v[k], <<"location">>).f["location"] IN
    IF k = "Point"
    THEN [variant |-> "Point", location |-> <<>>]
    ELSE [variant |-> "Polygon", location |-> PolygonLocationOf(loc)]

\* enum LocationType { Point, Polygon }, written as the variant name.
LocationTypeCause(j) ==
    IF j.t = "absent" THEN "missing field"
    ELSE IF j.t # "str" THEN "invalid type"
    ELSE IF j.v \in {"Point", "Polygon"} THEN "ok" ELSE "unknown variant"

\* LocationSchema
LocationKeys == <<"aoi", "type">>
LocationJson(l) ==
    JObj([aoi |-> LocationTypesJson(l.aoi), type |-> JStr(l.type)])
LocationCause(j) ==
    LET sf == StructFields(j, LocationKeys) IN
    IF ~sf.ok THEN sf.cause
    ELSE FirstCause(<<LocationTypesCause(sf.f["aoi"]),
                      LocationTypeCause(sf.f["type"])>>)
LocationOf(j) ==
    LET f == StructFields(j, LocationKeys).f IN
    [aoi |-> LocationTypesOf(f["aoi"]), type |-> f["type"].v]

\* LocationSchema::new_polygon
LocationSchema_new_polygon ==
    [type |-> "Polygon",
     aoi  |-> [variant  |-> "Polygon",
               location |-> [type |-> "Polygon", coordinates |-> world_coordinates]]]

\* LocationSchema::test(seed)
LocationSchema_test(seed) ==
    [aoi  |-> [variant  |-> "Polygon",
               location |-> [type |-> "Polygon", coordinates |-> <<<<seed>>>>]],
     type |-> "Point"]

\* GeoTagSchema
GeoTagKeys ==
    <<"anchorEnd", "anchorStart", "anchorText", "confidence", "location",
      "regions", "type">>
GeoTagJson(g) ==
    JObj([anchorEnd   |-> JNum(g.anchor_end),
          anchorStart |-> JNum(g.anchor_start),
          anchorText  |-> JStr(g.anchor_text),
          confidence  |-> F32Json(g.confidence),
          location    |-> LocationJson(g.location),
          regions     |-> JArr([i \in DOMAIN g.regions |-> RegionJson(g.regions[i])]),
          type        |-> JStr(g.type)])
GeoTagCause(j) ==
    LET sf == StructFields(j, GeoTagKeys) IN
    IF ~sf.ok THEN sf.cause
    ELSE FirstCause(<<I64Cause(sf.f["anchorEnd"]),
                      I64Cause(sf.f["anchorStart"]),
                      StringCause(sf.f["anchorText"]),
                      F32Cause(sf.f["confidence"]),
                      LocationCause(sf.f["location"]),
                      RegionsCause(sf.f["regions"]),
                      StringCause(sf.f["type"])>>)
GeoTagOf(j) ==
    LET f == StructFields(j, GeoTagKeys).f IN
    [anchor_end   |-> f["anchorEnd"].v,
     anchor_start |-> f["anchorStart"].v,
     anchor_text  |-> f["anchorText"].v,
     confidence   |-> F32Of(f["confidence"]),
     location     |-> LocationOf(f["location"]),
     regions      |-> [i \in DOMAIN f["regions"].v |-> RegionOf(f["regions"].v[i])],
     type         |-> f["type"].v]

\* Option<Vec<GeoTagSchema>>
OptGeoTagsJson(o) ==
    IF o.t = "none" THEN JNull
    ELSE JArr([i \in DOMAIN o.v |-> GeoTagJson(o.v[i])])
OptGeoTagsCause(j) ==
    IF j.t \in {"absent", "null"} THEN "ok"
    ELSE IF j.t # "arr" THEN "invalid type"
    ELSE FirstCause([i \in DOMAIN j.v |-> GeoTagCause(j.v[i])])
OptGeoTagsOf(j) ==
    IF j.t \in {"absent", "null"} THEN None
    ELSE Some([i \in DOMAIN j.v |-> GeoTagOf(j.v[i])])

\* ChatMessageSchema
ChatMessageKeys ==
    <<"classification", "domainId", "geoTags", "id", "roomName", "sender",
      "text", "threadId", "timestamp", "userId", "private">>
ChatMessageJson(m) ==
    JObj([classification |-> JStr(m.classification),
          domainId       |-> JStr(m.domain_id),
          geoTags        |-> OptGeoTagsJson(m.geo_tags),
          id             |-> JStr(m.id),
          roomName       |-> JStr(m.room_name),
          sender         |-> JStr(m.sender),
          text           |-> JStr(m.text),
          threadId       |-> OptStringJson(m.thread_id),
          timestamp      |-> JStr(m.timestamp),
          userId         |-> JStr(m.user_id),
          private        |-> JBool(m.private)])
ChatMessageCause(j) ==
    LET sf == StructFields(j, ChatMessageKeys) IN
    IF ~sf.ok THEN sf.cause
    ELSE FirstCause(<<StringCause(sf.f["classification"]),
                      StringCause(sf.f["domainId"]),
                      OptGeoTagsCause(sf.f["geoTags"]),
                      StringCause(sf.f["id"]),
                      StringCause(sf.f["roomName"]),
                      StringCause(sf.f["sender"]),
                      StringCause(sf.f["text"]),
                      OptStringCause(sf.f["threadId"]),
                      StringCause(sf.f["timestamp"]),
                      StringCause(sf.f["userId"]),
                      BoolCause(sf.f["private"])>>)
ChatMessageOf(j) ==
    LET f == StructFields(j, ChatMessageKeys).f IN
    [classification |-> f["classification"].v,
     domain_id      |-> f["domainId"].v,
     geo_tags       |-> OptGeoTagsOf(f["geoTags"]),
     id             |-> f["id"].v,
     room_name      |-> f["roomName"].v,
     sender         |-> f["sender"].v,
     text           |-> f["text"].v,
     thread_id      |-> OptStringOf(f["threadId"]),
     timestamp      |-> f["timestamp"].v,
     user_id        |-> f["userId"].v,
     private        |-> f["private"].v]

MessagesJson(ms)  == JArr([i \in DOMAIN ms |-> ChatMessageJson(ms[i])])
MessagesCause(j)  ==
    IF j.t = "absent" THEN "missing field"
    ELSE IF j.t # "arr" THEN "invalid type"
    ELSE FirstCause([i \in DOMAIN j.v |-> ChatMessageCause(j.v[i])])
MessagesOf(j)     == [i \in DOMAIN j.v |-> ChatMessageOf(j.v[i])]

----------------------------------------------------------------------------
(* ChatSurfer/messages.rs: parse_error_message *)

\* Variant: the ceiling is off by one.
Mut_MAX_REQUESTS_PER_MINUTE == 60 + 1

MAX_REQUESTS_PER_MINUTE == 60

BAD_REQUEST       == 400
NOT_FOUND         == 404
TOO_MANY_REQUESTS == 429

GenericFormatError ==
    "Error - Message contents do not match any expected format."

\* An anyhow::Error: the outermost context (what to_string() prints), the
\* context below it with the text it quotes, and the root cause.
AnyhowError(context, inner, source, cause) ==
    [tag |-> "Err", context |-> context, inner |-> inner,
     source |-> source, cause |-> cause]

\* CommonError::from(message).into()
CommonError(message) == AnyhowError(message, "", None, "")

ErrToString(e) == e.context

\* Variant: the 429 arm is missing, so 429 falls to the default arm.
Mut_parse_error_message_no_429(status_code, response) ==
    IF status_code = BAD_REQUEST
    THEN LET r == ErrorCode400_try_from_string(response) IN
         IF r.ok
         THEN [tag |-> "Failure400", body |-> r.val]
         ELSE AnyhowError(
                "Unable to convert the response body to a ErrorCode400 struct.",
                r.context, r.source, r.cause)
    ELSE IF status_code = NOT_FOUND
    THEN LET r == ErrorCode404_try_from_string(response) IN
         IF r.ok
         THEN [tag |-> "Failure404", body |-> r.val]
         ELSE AnyhowError(
                "Unable to convert the response body to a ErrorCode404 struct.",
                r.context, r.source, r.cause)
    ELSE CommonError(GenericFormatError)

\* Variant: a body that does not parse is replaced by a default struct
\* (unwrap_or_default instead of `?`).
Mut_parse_error_message_lenient(status_code, response) ==
    IF status_code = BAD_REQUEST
    THEN LET r == ErrorCode400_try_from_string(response) IN
         [tag  |-> "Failure400",
          body |-> IF r.ok THEN r.val
                   ELSE [classification |-> "UNCLASSIFIED", code |-> 400,
                         field_errors |-> <<>>, message |-> "Bad Request"]]
    ELSE IF status_code = NOT_FOUND
    THEN LET r == ErrorCode404_try_from_string(response) IN
         [tag  |-> "Failure404",
          body |-> IF r.ok THEN r.val
                   ELSE [classification |-> "UNCLASSIFIED", code |-> 404,
                         message |-> "Not Found"]]
    ELSE IF status_code = TOO_MANY_REQUESTS
    THEN [tag |-> "Failure429"]
    ELSE CommonError(GenericFormatError)

parse_error_message(status_code, response) ==
    IF status_code = BAD_REQUEST
    THEN LET r == ErrorCode400_try_from_string(response) IN
         IF r.ok
         THEN [tag |-> "Failure400", body |-> r.val]
         ELSE AnyhowError(
                "Unable to convert the response body to a ErrorCode400 struct.",
                r.context, r.source, r.cause)
    ELSE IF status_code = NOT_FOUND
    THEN LET r == ErrorCode404_try_from_string(response) IN
         IF r.ok
         THEN [tag |-> "Failure404", body |-> r.val]
         ELSE AnyhowError(
                "Unable to convert the response body to a ErrorCode404 struct.",
                r.context, r.source, r.cause)
    ELSE IF status_code = TOO_MANY_REQUESTS
    THEN [tag |-> "Failure429"]
    ELSE CommonError(GenericFormatError)

----------------------------------------------------------------------------
(* messages.rs: the Error struct sent to Edge View *)

UNCLASSIFIED          == "UNCLASSIFIED"
INTERNAL_SERVER_ERROR == 500

\* Variant: the generic envelope is built with the bad-request code.
Mut_new_unclassified_message_400(message) ==
    [classification |-> "UNCLASSIFIED",
     code           |-> 400,
     message        |-> message]

Error_new_unclassified_message(message) ==
    [classification |-> UNCLASSIFIED,
     code           |-> INTERNAL_SERVER_ERROR,
     message        |-> message]

\* Variant: the classification of the upstream body is dropped.
Mut_from_400_unclassified(error) ==
    [classification |-> "UNCLASSIFIED",
     code           |-> error.code,
     message        |-> error.message]

Error_from_400(error) ==
    [classification |-> error.classification,
     code           |-> error.code,
     message        |-> error.message]

\* Variant: the code is set to 404 instead of being copied from the body.
Mut_from_404_fixed_code(error) ==
    [classification |-> error.classification,
     code           |-> 404,
     message        |-> error.message]

Error_from_404(error) ==
    [classification |-> error.classification,
     code           |-> error.code,
     message        |-> error.message]

\* Variant: the local 429 envelope carries another marking.
Mut_new_429_marking ==
    [classification |-> "SECRET",
     code           |-> TOO_MANY_REQUESTS,
     message        |-> "Too many requests"]

Error_new_429 ==
    [classification |-> UNCLASSIFIED,
     code           |-> TOO_MANY_REQUESTS,
     message        |-> "Too many requests"]

\* Error::try_to_json: serde_json::to_string of the three fields.
Error_try_to_json(e) ==
    JObj([classification |-> JStr(e.classification),
          code           |-> JNum(e.code),
          message        |-> JStr(e.message)])

\* The Error struct read back by its derived Deserialize.
Error_from_json(json) ==
    LET sf    == StructFields(json, ErrorCode404Keys)
        cause == IF ~sf.ok THEN sf.cause
                 ELSE FirstCause(<<StringCause(sf.f["classification"]),
                                   U16Cause(sf.f["code"]),
                                   StringCause(sf.f["message"])>>)
    IN  IF cause = "ok"
        THEN [ok  |-> TRUE,
              val |-> [classification |-> sf.f["classification"].v,
                       code           |-> sf.f["code"].v,
                       message        |-> sf.f["message"].v]]
        ELSE [ok |-> FALSE, cause |-> cause]

----------------------------------------------------------------------------
(* messages.rs: the four responses sent to Edge View *)

\* SendNewMessageResponse { message }
SendNewMessageResponse_new_204 ==
    [message |-> "Successful - No Response Content"]
SendNewMessageResponse_try_to_json(r) ==
    JObj([message |-> JStr(r.message)])
SendNewMessageResponse_from_json(json) ==
    LET sf    == StructFields(json, <<"message">>)
        cause == IF ~sf.ok THEN sf.cause ELSE StringCause(sf.f["message"])
    IN  IF cause = "ok"
        THEN [ok |-> TRUE, val |-> [message |-> sf.f["message"].v]]
        ELSE [ok |-> FALSE, cause |-> cause]

\* GetMessagesResponse { classification, messages }
GetMessagesResponse_new == [classification |-> "", messages |-> <<>>]
GetMessagesResponse_try_to_json(r) ==
    JObj([classification |-> JStr(r.classification),
          messages       |-> MessagesJson(r.messages)])
GetMessagesResponse_try_from_json(json) ==
    LET sf    == StructFields(json, <<"classification", "messages">>)
        cause == IF ~sf.ok THEN sf.cause
                 ELSE FirstCause(<<StringCause(sf.f["classification"]),
                                   MessagesCause(sf.f["messages"])>>)
    IN  IF cause = "ok"
        THEN [ok  |-> TRUE,
              val |-> [classification |-> sf.f["classification"].v,
                       messages       |-> MessagesOf(sf.f["messages"])]]
        ELSE [ok |-> FALSE, cause |-> cause]

\* GetUsersResponse { userNames }
GetUsersResponse_new == [user_names |-> <<>>]
GetUsersResponse_try_to_json(r) ==
    JObj([userNames |-> StringVecJson(r.user_names)])
GetUsersResponse_try_from_json(json) ==
    LET sf    == StructFields(json, <<"userNames">>)
        cause == IF ~sf.ok THEN sf.cause ELSE StringVecCause(sf.f["userNames"])
    IN  IF cause = "ok"
        THEN [ok |-> TRUE, val |-> [user_names |-> StringVecOf(sf.f["userNames"])]]
        ELSE [ok |-> FALSE, cause |-> cause]

\* SearchMessagesResponse { messages }
SearchMessagesResponse_try_to_json(r) ==
    JObj([messages |-> MessagesJson(r.messages)])
SearchMessagesResponse_from_json(json) ==
    LET sf    == StructFields(json, <<"messages">>)
        cause == IF ~sf.ok THEN sf.cause ELSE MessagesCause(sf.f["messages"])
    IN  IF cause = "ok"
        THEN [ok |-> TRUE, val |-> [messages |-> MessagesOf(sf.f["messages"])]]
        ELSE [ok |-> FALSE, cause |-> cause]

\* EdgeViewResponseTypes::try_to_json: the body of the variant, encoded by
\* its own try_to_json.
EdgeViewResponseTypes_try_to_json(r) ==
    CASE r.variant = "SendNewMessage" -> SendNewMessageResponse_try_to_json(r.body)
      [] r.variant = "GetMessages"    -> GetMessagesResponse_try_to_json(r.body)
      [] r.variant = "GetUsers"       -> GetUsersResponse_try_to_json(r.body)
      [] r.variant = "SearchMessages" -> SearchMessagesResponse_try_to_json(r.body)
      [] r.variant = "Error"          -> Error_try_to_json(r.body)

\* The decoder of the struct a variant holds.
ResponseFromJson(variant, json) ==
    CASE variant = "SendNewMessage" -> SendNewMessageResponse_from_json(json)
      [] variant = "GetMessages"    -> GetMessagesResponse_try_from_json(json)
      [] variant = "GetUsers"       -> GetUsersResponse_try_from_json(json)
      [] variant = "SearchMessages" -> SearchMessagesResponse_from_json(json)
      [] variant = "Error"          -> Error_from_json(json)

----------------------------------------------------------------------------
(* messages.rs: the four requests Edge View sends, decoded from JSON *)

UsersRequestKeys  == <<"domainId", "roomName">>
SearchRequestKeys == <<"domainId", "roomName", "keywords">>
SendRequestKeys   == <<"domainId", "roomName", "text">>

\* What every try_from_json returns on a serde error: the error with the
\* context "Unable to create {name} struct from String {json}".
FromJsonError(name, json, cause) ==
    [ok |-> FALSE, context |-> name, source |-> json, cause |-> cause]

\* GetUsersRequest::try_from_json
GetUsersRequest_try_from_json(json) ==
    LET sf    == StructFields(json, UsersRequestKeys)
        cause == IF ~sf.ok THEN sf.cause
                 ELSE FirstCause(<<StringCause(sf.f["domainId"]),
                                   StringCause(sf.f["roomName"])>>)
    IN  IF cause = "ok"
        THEN [ok  |-> TRUE,
              val |-> [domain_id |-> sf.f["domainId"].v,
                       room_name |-> sf.f["roomName"].v]]
        ELSE FromJsonError("GetUsersRequest", json, cause)

\* GetMessagesRequest::try_from_json
GetMessagesRequest_try_from_json(json) ==
    LET sf    == StructFields(json, UsersRequestKeys)
        cause == IF ~sf.ok THEN sf.cause
                 ELSE FirstCause(<<StringCause(sf.f["domainId"]),
                                   StringCause(sf.f["roomName"])>>)
    IN  IF cause = "ok"
        THEN [ok  |-> TRUE,
              val |-> [domain_id |-> sf.f["domainId"].v,
                       room_name |-> sf.f["roomName"].v]]
        ELSE FromJsonError("GetMessagesRequest", json, cause)

\* SearchMessagesRequest::try_from_json
SearchMessagesRequest_try_from_json(json) ==
    LET sf    == StructFields(json, SearchRequestKeys)
        cause == IF ~sf.ok THEN sf.cause
                 ELSE FirstCause(<<StringCause(sf.f["domainId"]),
                                   StringCause(sf.f["roomName"]),
                                   StringVecCause(sf.f["keywords"])>>)
    IN  IF cause = "ok"
        THEN [ok  |-> TRUE,
              val |-> [domain_id |-> sf.f["domainId"].v,
                       room_name |-> sf.f["roomName"].v,
                       keywords  |-> StringVecOf(sf.f["keywords"])]]
        ELSE FromJsonError("SearchMessagesRequest", json, cause)

\* SendNewMessageRequest::try_from_json
SendNewMessageRequest_try_from_json(json) ==
    LET sf    == StructFields(json, SendRequestKeys)
        cause == IF ~sf.ok THEN sf.cause
                 ELSE FirstCause(<<StringCause(sf.f["domainId"]),
                                   StringCause(sf.f["roomName"]),
                                   StringCause(sf.f["text"])>>)
    IN  IF cause = "ok"
        THEN [ok  |-> TRUE,
              val |-> [domain_id |-> sf.f["domainId"].v,
                       room_name |-> sf.f["roomName"].v,
                       text      |-> sf.f["text"].v]]
        ELSE FromJsonError("SendNewMessageRequest", json, cause)

----------------------------------------------------------------------------
(* Failed upstream responses the error conversion is applied to *)

\* Longest fieldErrors list of an upstream 400 body.
MaxFieldErrors == 2

FieldNames == <<"domainId", "roomName", "text">>

\* The i-th field error of an upstream 400 body, as JSON.
FieldErrorJson(i) ==
    LET name == FieldNames[((i - 1) % Len(FieldNames)) + 1] IN
    JObj([fieldName        |-> JStr(name),
          message          |-> JStr("must not be blank"),
          messageArguments |-> JArr(<<JStr(name)>>),
          messageCode      |-> JStr("NotBlank"),
          rejectedValue    |-> JStr("")])

\* The object holding the keys of f that are present.
ObjOf(f) ==
    JObj([k \in {x \in DOMAIN f : f[x].t # "absent"} |-> f[k]])

ClassificationChoices == {Absent, JStr("UNCLASSIFIED"), JStr("SECRET"), JNum(7)}
CodeChoices ==
    {Absent, JNum(400), JNum(404), JNum(500), JNum(U16_MAX + 1), JStr("404")}
MessageChoices == {Absent, JStr("Room not found"), JStr("Bad Request")}
FieldErrorsChoices ==
    {Absent, JStr("none"), JArr(<<JObj([fieldName |-> JStr("domainId")])>>)}
      \cup {JArr([i \in 1..n |-> FieldErrorJson(i)]) : n \in 0..MaxFieldErrors}
ExtraChoices == {Absent, JStr("2024-01-01T00:00:00Z")}

ErrorBodies ==
    {JInvalid, JNull,
     JArr(<<JStr("UNCLASSIFIED"), JNum(404), JStr("Room not found")>>),
     JArr(<<JStr("UNCLASSIFIED"), JNum(404)>>)}
      \cup {ObjOf([classification |-> c, code |-> n, message |-> m,
                   fieldErrors |-> fe, timestamp |-> x]) :
              c \in ClassificationChoices, n \in CodeChoices,
              m \in MessageChoices, fe \in FieldErrorsChoices,
              x \in ExtraChoices}

Statuses == {200, 400, 404, 429, 500, 502}

----------------------------------------------------------------------------
(* Error conversion as a state machine: a failed response is received,     *)
(* parse_error_message is applied to it, the matching Error constructor    *)
(* builds the envelope and Error::try_to_json encodes it.                  *)

ErrIdle ==
    /\ epc = "off" /\ status = 0 /\ body = None
    /\ parsed = None /\ envelope = None /\ wire = None

ReqIdle ==
    /\ rpc = "off" /\ reqType = "none" /\ frame = None /\ decoded = None

RespIdle ==
    /\ xpc = "off" /\ respValue = None /\ encoded = None /\ readBack = None

RateIdle ==
    /\ windowAge = -1 /\ reserved = 0 /\ budget = 0 /\ issued = 0
    /\ outcome = "off" /\ reply = None

ConnIdle ==
    /\ cpc = "off" /\ cfn = "none" /\ request = None /\ authHeader = None
    /\ connOpen = FALSE /\ sendCalls = <<>> /\ wireOut = <<>>
    /\ reads = 0 /\ result = None /\ readLog = <<>>

TestIdle ==
    /\ lpc = "off" /\ args = None /\ test_list = <<>> /\ test_status = None
    /\ total_tests = 0 /\ passed_tests = 0
    /\ iteration = 0 /\ number_of_successes = 0

TokenIdle ==
    /\ tpc = "off" /\ now = 0 /\ issueTime = 0 /\ claims = None
    /\ attachedAt = 0

KwIdle ==
    /\ kpc = "off" /\ keywords = <<>> /\ filter = None

SchemaIdle ==
    /\ spc = "off" /\ sHow = "none" /\ sIn = None /\ sOut = None

IssueIdle ==
    /\ tokens = <<>> /\ drawn = {}

ErrInit ==
    /\ epc = "recv"
    /\ status \in Statuses
    /\ body \in ErrorBodies
    /\ parsed = None /\ envelope = None /\ wire = None
    /\ ReqIdle /\ RespIdle /\ RateIdle /\ ConnIdle
    /\ TestIdle /\ TokenIdle /\ KwIdle /\ SchemaIdle /\ IssueIdle

ParseErrorMessage ==
    /\ epc = "recv"
    /\ parsed' = parse_error_message(status, body)
    /\ epc' = "parsed"
    /\ UNCHANGED <<status, body, envelope, wire, notErrVars>>

From400 ==
    /\ epc = "parsed" /\ parsed.tag = "Failure400"
    /\ envelope' = Error_from_400(parsed.body)
    /\ epc' = "built"
    /\ UNCHANGED <<status, body, parsed, wire, notErrVars>>

From404 ==
    /\ epc = "parsed" /\ parsed.tag = "Failure404"
    /\ envelope' = Error_from_404(parsed.body)
    /\ epc' = "built"
    /\ UNCHANGED <<status, body, parsed, wire, notErrVars>>

New429 ==
    /\ epc = "parsed" /\ parsed.tag = "Failure429"
    /\ envelope' = Error_new_429
    /\ epc' = "built"
    /\ UNCHANGED <<status, body, parsed, wire, notErrVars>>

\* The Err of parse_error_message handed, as text, to the generic envelope.
NewUnclassifiedMessage ==
    /\ epc = "parsed" /\ parsed.tag = "Err"
    /\ envelope' = Error_new_unclassified_message(ErrToString(parsed))
    /\ epc' = "built"
    /\ UNCHANGED <<status, body, parsed, wire, notErrVars>>

ErrorToJson ==
    /\ epc = "built"
    /\ wire' = Error_try_to_json(envelope)
    /\ epc' = "sent"
    /\ UNCHANGED <<status, body, parsed, envelope, notErrVars>>

ErrNext ==
    \/ ParseErrorMessage
    \/ From400
    \/ From404
    \/ New429
    \/ NewUnclassifiedMessage
    \/ ErrorToJson

SpecErr == ErrInit /\ [][ErrNext]_vars

----------------------------------------------------------------------------
(* Claims about the error conversion, checked under SpecErr *)

Built == epc \in {"built", "sent"}

\* Field k of the upstream body as the upstream wrote it (object by key,
\* array by position).
Upstream(k, order) ==
    IF body.t = "obj" THEN body.v[k].v ELSE body.v[IndexOf(order, k)].v

RoomNotFoundBody ==
    JObj([classification |-> JStr("UNCLASSIFIED"),
          code           |-> JNum(404),
          message        |-> JStr("Room not found")])

\* C1 as stated: for an upstream 404 whose body parses as ErrorCode404, the
\* envelope built by Error::from_404 has code 404 and the classification and
\* message of the upstream body.
C1_Original ==
    (Built /\ status = 404 /\ parsed.tag = "Failure404") =>
        /\ envelope.code = 404
        /\ envelope.classification = Upstream("classification", ErrorCode404Keys)
        /\ envelope.message = Upstream("message", ErrorCode404Keys)

\* C1 amended: for an upstream 404 whose body parses as ErrorCode404, the
\* envelope built by Error::from_404 carries the code, the classification and
\* the message of the upstream body (so its code is 404 whenever the body
\* says 404), and a body holding just these three keys is encoded for the
\* client unchanged.
C1_BodyPreserved ==
    (Built /\ status = 404 /\ parsed.tag = "Failure404") =>
        /\ envelope.code = Upstream("code", ErrorCode404Keys)
        /\ envelope.classification = Upstream("classification", ErrorCode404Keys)
        /\ envelope.message = Upstream("message", ErrorCode404Keys)
        /\ (Upstream("code", ErrorCode404Keys) = 404 => envelope.code = 404)
        /\ (epc = "sent" /\ body.t = "obj"
              /\ DOMAIN body.v = {"classification", "code", "message"})
             => wire = body

C1_Witness ==
    /\ epc = "sent" /\ status = 404
    /\ body = RoomNotFoundBody
    /\ wire = RoomNotFoundBody

\* The field errors an envelope carries: the Error struct has no field for
\* them, so an envelope carries those of its fields that exist.
EnvelopeFieldErrors(e) ==
    IF "field_errors" \in DOMAIN e THEN e.field_errors ELSE <<>>

C3_TooManyRequests ==
    /\ (epc # "recv" /\ status = 429) => parsed.tag = "Failure429"
    /\ (Built /\ status = 429) =>
          /\ envelope.code = 429
          /\ envelope.message = "Too many requests"
    /\ (epc = "sent" /\ status = 429) =>
          /\ wire.v["code"] = JNum(429)
          /\ wire.v["message"] = JStr("Too many requests")

C3_Witness ==
    /\ epc = "sent" /\ status = 429
    /\ body.t = "obj" /\ "fieldErrors" \in DOMAIN body.v
    /\ envelope.code = 429

----------------------------------------------------------------------------
(* Request frames and their decoding as a state machine *)

TEST_DOMAIN == "chatsurferxmppunclass"
TEST_ROOM   == "edge-view-test-room"

\* Longest keywords list of a search request frame.
MaxKeywords == 2

Keywords == <<"test_keyword", "second_keyword", "third_keyword">>

DomainChoices   == {Absent, JStr(""), JStr(TEST_DOMAIN), JNum(1)}
RoomChoices     == {Absent, JStr(""), JStr(TEST_ROOM)}
KeywordsChoices ==
    {Absent, JStr("test_keyword")}
      \cup {JArr([i \in 1..n |-> JStr(Keywords[((i - 1) % Len(Keywords)) + 1])]) :
              n \in 0..MaxKeywords}
TextChoices     == {Absent, JStr(""), JStr("I'm a new message")}

RequestFrames ==
    {JInvalid, JNull}
      \cup {ObjOf([domainId |-> d, roomName |-> r, keywords |-> k, text |-> x]) :
              d \in DomainChoices, r \in RoomChoices,
              k \in KeywordsChoices, x \in TextChoices}

RequestTypes == {"GetUsers", "GetMessages", "SearchMessages", "SendMessage"}

ReqInit ==
    /\ rpc = "frame"
    /\ reqType \in RequestTypes
    /\ frame \in RequestFrames
    /\ decoded = None
    /\ ErrIdle /\ RespIdle /\ RateIdle /\ ConnIdle
    /\ TestIdle /\ TokenIdle /\ KwIdle /\ SchemaIdle /\ IssueIdle

DecodeGetUsers ==
    /\ rpc = "frame" /\ reqType = "GetUsers"
    /\ decoded' = GetUsersRequest_try_from_json(frame)
    /\ rpc' = "decoded"
    /\ UNCHANGED <<reqType, frame, notReqVars>>

DecodeGetMessages ==
    /\ rpc = "frame" /\ reqType = "GetMessages"
    /\ decoded' = GetMessagesRequest_try_from_json(frame)
    /\ rpc' = "decoded"
    /\ UNCHANGED <<reqType, frame, notReqVars>>

DecodeSearchMessages ==
    /\ rpc = "frame" /\ reqType = "SearchMessages"
    /\ decoded' = SearchMessagesRequest_try_from_json(frame)
    /\ rpc' = "decoded"
    /\ UNCHANGED <<reqType, frame, notReqVars>>

DecodeSendMessage ==
    /\ rpc = "frame" /\ reqType = "SendMessage"
    /\ decoded' = SendNewMessageRequest_try_from_json(frame)
    /\ rpc' = "decoded"
    /\ UNCHANGED <<reqType, frame, notReqVars>>

ReqNext ==
    \/ DecodeGetUsers
    \/ DecodeGetMessages
    \/ DecodeSearchMessages
    \/ DecodeSendMessage

SpecReq == ReqInit /\ [][ReqNext]_vars

----------------------------------------------------------------------------
(* Claims about request decoding, checked under SpecReq *)

\* Key k of the frame holds an empty string (or an empty list).
FrameEmpty(k) ==
    /\ frame.t = "obj" /\ k \in DOMAIN frame.v
    /\ \/ frame.v[k] = JStr("")
       \/ frame.v[k] = JArr(<<>>)

\* C7: for each of the four request types, a frame whose domainId or
\* roomName is the empty string, or whose keywords list (SearchMessages) or
\* text (SendMessage) is empty, is rejected by try_from_json and never
\* accepted as a request value.
C7_EmptyIdentifierRejected ==
    (/\ rpc = "decoded"
     /\ \/ FrameEmpty("domainId")
        \/ FrameEmpty("roomName")
        \/ (reqType = "SearchMessages" /\ FrameEmpty("keywords"))
        \/ (reqType = "SendMessage" /\ FrameEmpty("text")))
    => ~decoded.ok

----------------------------------------------------------------------------
(* Response values, their encoding and decoding as a state machine *)

\* Longest messages list and longest userNames list of a response.
MaxMessages == 1
MaxUsers    == 2

UserNames == <<"alice", "bob", "carol">>

\* The f32 values a field can hold: finite ones, and the non-finite ones a
\* decoded upstream message holds after reading a token such as 1e39.
F32Values == {"0.5", "NaN", "inf"}

Locations ==
    {LocationSchema_new_polygon}
      \cup {LocationSchema_test(seed) : seed \in {"1.0", "NaN"}}
      \cup {[type |-> "Point", aoi |-> [variant |-> "Point", location |-> <<>>]]}

Regions ==
    {<<>>,
     <<[abbreviation |-> "EU", bounds |-> <<"1.0", "2.0">>,
        description |-> "Europe", name |-> "Europe", region_type |-> "continent"]>>}

GeoTags ==
    {[anchor_end |-> 5, anchor_start |-> 0, anchor_text |-> "Paris",
      confidence |-> c, location |-> l, regions |-> r, type |-> "place"] :
        c \in F32Values, l \in Locations, r \in Regions}

ChatMessages ==
    {[classification |-> "UNCLASSIFIED", domain_id |-> TEST_DOMAIN,
      geo_tags |-> g, id |-> "m-1", room_name |-> TEST_ROOM,
      sender |-> "alice", text |-> x, thread_id |-> th,
      timestamp |-> "2024-01-01T00:00:00Z", user_id |-> "u-1", private |-> pr] :
        g  \in {None, Some(<<>>)} \cup {Some(<<t>>) : t \in GeoTags},
        x  \in {"", "Paris is nice"},
        th \in {None, Some("thread-1")},
        pr \in BOOLEAN}

PlainMessage ==
    [classification |-> "UNCLASSIFIED", domain_id |-> TEST_DOMAIN,
     geo_tags |-> None, id |-> "m-0", room_name |-> TEST_ROOM,
     sender |-> "bob", text |-> "hello", thread_id |-> None,
     timestamp |-> "2024-01-01T00:00:00Z", user_id |-> "u-0", private |-> FALSE]

\* Lists of at most MaxMessages messages: the last one varies.
MessageLists ==
    {<<>>} \cup
    {[i \in 1..n |-> IF i = n THEN m ELSE PlainMessage] :
        n \in 1..MaxMessages, m \in ChatMessages}

ResponseValues ==
    {[variant |-> "SendNewMessage", body |-> b] :
        b \in {SendNewMessageResponse_new_204, [message |-> ""]}}
    \cup {[variant |-> "GetMessages",
           body |-> [classification |-> c, messages |-> ms]] :
            c \in {"", "UNCLASSIFIED"}, ms \in MessageLists}
    \cup {[variant |-> "GetMessages", body |-> GetMessagesResponse_new]}
    \cup {[variant |-> "GetUsers",
           body |-> [user_names |-> [i \in 1..n |-> UserNames[((i - 1) % Len(UserNames)) + 1]]]] :
            n \in 0..MaxUsers}
    \cup {[variant |-> "SearchMessages", body |-> [messages |-> ms]] :
            ms \in MessageLists}
    \cup {[variant |-> "Error", body |-> b] :
            b \in {Error_new_429,
                   Error_new_unclassified_message(GenericFormatError),
                   [classification |-> "SECRET", code |-> U16_MAX, message |-> ""]}}

RespInit ==
    /\ xpc = "value"
    /\ respValue \in ResponseValues
    /\ encoded = None /\ readBack = None
    /\ ErrIdle /\ ReqIdle /\ RateIdle /\ ConnIdle
    /\ TestIdle /\ TokenIdle /\ KwIdle /\ SchemaIdle /\ IssueIdle

EncodeResponse ==
    /\ xpc = "value"
    /\ encoded' = EdgeViewResponseTypes_try_to_json(respValue)
    /\ xpc' = "encoded"
    /\ UNCHANGED <<respValue, readBack, notRespVars>>

DecodeResponse ==
    /\ xpc = "encoded"
    /\ readBack' = ResponseFromJson(respValue.variant, encoded)
    /\ xpc' = "decoded"
    /\ UNCHANGED <<respValue, encoded, notRespVars>>

RespNext ==
    \/ EncodeResponse
    \/ DecodeResponse

SpecResp == RespInit /\ [][RespNext]_vars

----------------------------------------------------------------------------
(* Claims about response encoding, checked under SpecResp *)

\* C8: for every response value, encoding it with try_to_json and decoding
\* the text back yields a value equal to it field for field.
C8_RoundTrip ==
    xpc = "decoded" => (readBack.ok /\ readBack.val = respValue.body)

----------------------------------------------------------------------------
(* The rate budget: a fixed window of WINDOW_SECONDS seconds that opens    *)
(* with its first reservation and holds MAX_REQUESTS_PER_MINUTE            *)
(* reservations.  A granted reservation is forwarded to the upstream; a    *)
(* denied one is answered at once with Error::new_429.                     *)

WINDOW_SECONDS == 60

\* Reservations asked for in one window.
MaxReservations == 62

RateInit ==
    /\ windowAge = -1 /\ reserved = 0 /\ budget = 0 /\ issued = 0
    /\ outcome = "none" /\ reply = None
    /\ ErrIdle /\ ReqIdle /\ RespIdle /\ ConnIdle
    /\ TestIdle /\ TokenIdle /\ KwIdle /\ SchemaIdle /\ IssueIdle

WindowElapsed == windowAge = -1 \/ windowAge >= WINDOW_SECONDS

\* reserve() and the dispatch that follows it
Reserve ==
    /\ WindowElapsed \/ reserved < MaxReservations
    /\ IF WindowElapsed
       THEN /\ windowAge' = 0
            /\ reserved' = 1 /\ budget' = 1 /\ issued' = 1
            /\ outcome' = "Granted" /\ reply' = None
       ELSE IF budget < MAX_REQUESTS_PER_MINUTE
       THEN /\ reserved' = reserved + 1
            /\ budget' = budget + 1 /\ issued' = issued + 1
            /\ outcome' = "Granted" /\ reply' = None
            /\ UNCHANGED windowAge
       ELSE /\ reserved' = reserved + 1
            /\ outcome' = "Denied" /\ reply' = Error_new_429
            /\ UNCHANGED <<windowAge, budget, issued>>
    /\ UNCHANGED notRateVars

\* One second passes.
Tick ==
    /\ windowAge >= 0 /\ windowAge < WINDOW_SECONDS
    /\ windowAge' = windowAge + 1
    /\ UNCHANGED <<reserved, budget, issued, outcome, reply, notRateVars>>

RateNext ==
    \/ Reserve
    \/ Tick

SpecRate == RateInit /\ [][RateNext]_vars

\* C9: within one fixed 60-second window at most 60 requests are issued
\* toward the upstream: the 61st reservation of a window (and every later
\* one) is denied and answered with a locally built 429 envelope, and no
\* request goes to the upstream for it.
C9_CeilingRespected ==
    /\ issued <= 60
    /\ reserved <= 60 => (outcome \in {"none", "Granted"} /\ issued = reserved)
    /\ reserved > 60 =>
         /\ outcome = "Denied"
         /\ issued = 60
         /\ reply.code = 429
         /\ reply.message = "Too many requests"

C9_Witness ==
    /\ reserved = 61 /\ windowAge < 60
    /\ outcome = "Denied" /\ issued = 60
    /\ reply.code = 429

----------------------------------------------------------------------------
(* One client exchange: ws_connect_send of main.rs and of                  *)
(* edge_view/client.rs.  The peer and the network are the environment:     *)
(* every connect, handshake, send and read takes each outcome it can have. *)

\* Variant: the fields are written under their Rust names.
Mut_GetUsersRequest_field_names(r) ==
    JObj([domain_id |-> JStr(r.domain_id), room_name |-> JStr(r.room_name)])

GetUsersRequest_try_to_json(r) ==
    JObj([domainId |-> JStr(r.domain_id), roomName |-> JStr(r.room_name)])

GetMessagesRequest_to_json(r) ==
    JObj([domainId |-> JStr(r.domain_id), roomName |-> JStr(r.room_name)])

SearchMessagesRequest_to_json(r) ==
    JObj([domainId |-> JStr(r.domain_id), roomName |-> JStr(r.room_name),
          keywords |-> StringVecJson(r.keywords)])

SendNewMessageRequest_to_json(r) ==
    JObj([domainId |-> JStr(r.domain_id), roomName |-> JStr(r.room_name),
          text |-> JStr(r.text)])

get_users_message ==
    GetUsersRequest_try_to_json(
        [domain_id |-> TEST_DOMAIN, room_name |-> TEST_ROOM])

build_messages_request ==
    GetMessagesRequest_to_json(
        [domain_id |-> TEST_DOMAIN, room_name |-> TEST_ROOM])

build_search_messages_request ==
    SearchMessagesRequest_to_json(
        [domain_id |-> TEST_DOMAIN, room_name |-> TEST_ROOM,
         keywords |-> <<"test_keyword">>])

build_new_message_request ==
    SendNewMessageRequest_to_json(
        [domain_id |-> TEST_DOMAIN, room_name |-> TEST_ROOM,
         text |-> "I'm a new message"])

\* edge_view::client::build_users_request
build_users_request ==
    GetUsersRequest_try_to_json(
        [domain_id |-> TEST_DOMAIN, room_name |-> TEST_ROOM])

\* The four TestCase values of process_arguments, in the order it pushes
\* them.
CreateMessageCase ==
    [path |-> "/send", test_name |-> "Create Message",
     message |-> build_new_message_request,
     validator |-> "create_message_validator"]
GetMessagesCase ==
    [path |-> "/messages", test_name |-> "Get Messages",
     message |-> build_messages_request,
     validator |-> "get_messages_validator"]
GetUsersCase ==
    [path |-> "/users", test_name |-> "Get Users",
     message |-> get_users_message,
     validator |-> "get_users_validator"]
SearchMessagesCase ==
    [path |-> "/search", test_name |-> "Search Messages",
     message |-> build_search_messages_request,
     validator |-> "search_messages_validator"]

\* The test cases process_arguments can put on the list.
TestCases ==
    {CreateMessageCase, GetMessagesCase, GetUsersCase, SearchMessagesCase}

\* What main.rs test(stream) sends: the Get Users request to /users; its
\* response is logged, not validated.
TestFnCase ==
    [path |-> "/users", test_name |-> "test",
     message |-> build_users_request, validator |-> "none"]

TextFrame(payload) == [kind |-> "Text", payload |-> payload]

\* Message::Close(Some(CloseFrame { code: CloseCode::Normal, reason: "Complete" }))
CloseFrame == [kind |-> "Close", code |-> "Normal", reason |-> "Complete"]

\* What read.next() can return: a frame of the peer, an error, or the end
\* of the stream.
PeerFrames ==
    { TextFrame(GetUsersResponse_try_to_json([user_names |-> <<"alice">>])),
      TextFrame(Error_try_to_json(Error_new_429)),
      [kind |-> "Binary"], [kind |-> "Ping"],
      [kind |-> "Close", code |-> "Away", reason |-> ""] }

ReadOutcomes ==
    {[tag |-> "Ok", frame |-> f] : f \in PeerFrames}
      \cup {[tag |-> "Err"], [tag |-> "End"]}

ConnInit ==
    /\ cpc = "start"
    /\ \/ cfn \in {"main", "client"} /\ request \in TestCases
       \/ cfn = "test" /\ request = TestFnCase
    /\ authHeader = None
    /\ connOpen = FALSE
    /\ sendCalls = <<>> /\ wireOut = <<>>
    /\ reads = 0
    /\ result = None /\ readLog = <<>>
    /\ ErrIdle /\ ReqIdle /\ RespIdle /\ RateIdle
    /\ TestIdle /\ TokenIdle /\ KwIdle /\ SchemaIdle /\ IssueIdle

\* The upgrade request with its Authorization header.  test(stream) is
\* handed a connected stream.
BuildUpgradeRequest ==
    /\ cpc = "start"
    /\ authHeader' = Some("Bearer jwt")
    /\ cpc' = IF cfn = "test" THEN "handshake" ELSE "tcp"
    /\ UNCHANGED <<cfn, request, connOpen, sendCalls, wireOut, reads, result,
                   readLog,
                   notConnVars>>

\* The callers of client.rs ws_connect that handle its None.
ReturnsOnNone == {"client", "test_get_users_and_listen", "spin_client"}

\* TcpStream::connect: main.rs unwraps the result; client.rs ws_connect
\* returns None, which its ws_connect_send returns and the repeat tests
\* unwrap.
TcpConnect ==
    /\ cpc = "tcp"
    /\ \E ok \in BOOLEAN :
         cpc' = IF ok THEN "handshake"
                ELSE IF cfn \in ReturnsOnNone THEN "done" ELSE "panicked"
    /\ UNCHANGED <<cfn, request, authHeader, connOpen, sendCalls, wireOut,
                   reads, result, readLog, notConnVars>>

\* Variant: the exchange goes on after a failed handshake.
Mut_Handshake_ignore_failure ==
    /\ cpc = "handshake"
    /\ \E ok \in BOOLEAN :
         /\ connOpen' = ok
         /\ cpc' = "send"
    /\ UNCHANGED <<cfn, request, authHeader, sendCalls, wireOut, reads,
                   result, readLog, notConnVars>>

\* client_async(..).await.expect("Failed to connect"), then the 3 s sleep
\* and socket.split().  test(stream) matches on the result instead and
\* logs "Could not create the socket.".
Handshake ==
    /\ cpc = "handshake"
    /\ \E ok \in BOOLEAN :
         /\ connOpen' = ok
         /\ cpc' = IF ok THEN "send"
                   ELSE IF cfn = "test" THEN "done" ELSE "panicked"
    /\ UNCHANGED <<cfn, request, authHeader, sendCalls, wireOut, reads,
                   result, readLog, notConnVars>>

\* Variant: a failed send of the request returns at once.
Mut_SendRequest_early_return ==
    /\ cpc = "send"
    /\ sendCalls' = Append(sendCalls, TextFrame(request.message))
    /\ \E ok \in BOOLEAN :
         IF ok
         THEN /\ wireOut' = Append(wireOut, TextFrame(request.message))
              /\ cpc' = "read"
         ELSE /\ wireOut' = wireOut
              /\ cpc' = "done"
    /\ UNCHANGED <<cfn, request, authHeader, connOpen, reads, result,
                   readLog,
                   notConnVars>>

\* write.send(Message::Text(message))
SendRequest ==
    /\ cpc = "send"
    /\ sendCalls' = Append(sendCalls, TextFrame(request.message))
    /\ \E ok \in BOOLEAN :
         IF ok
         THEN /\ wireOut' = Append(wireOut, TextFrame(request.message))
              /\ cpc' = "read"
         ELSE /\ wireOut' = wireOut
              /\ cpc' = "close"
    /\ UNCHANGED <<cfn, request, authHeader, connOpen, reads, result,
                   readLog,
                   notConnVars>>

\* Variant: only a text frame is handed back.
Mut_ReadResponse_text_only ==
    /\ cpc = "read"
    /\ \E o \in ReadOutcomes :
         /\ result' = IF o.tag = "Ok" /\ o.frame.kind = "Text"
                      THEN Some(o.frame) ELSE None
         /\ readLog' = Append(readLog, o)
    /\ reads' = reads + 1
    /\ cpc' = "close"
    /\ UNCHANGED <<cfn, request, authHeader, connOpen, sendCalls, wireOut,
                   notConnVars>>

\* read.next(): Some(Ok(payload)) is the result, anything else gives None.
ReadResponse ==
    /\ cpc = "read"
    /\ \E o \in ReadOutcomes :
         /\ result' = IF o.tag = "Ok" THEN Some(o.frame) ELSE None
         /\ readLog' = Append(readLog, o)
    /\ reads' = reads + 1
    /\ cpc' = "close"
    /\ UNCHANGED <<cfn, request, authHeader, connOpen, sendCalls, wireOut,
                   notConnVars>>

\* write.send(Message::Close(Some(close_frame))), then the return.
SendClose ==
    /\ cpc = "close"
    /\ sendCalls' = Append(sendCalls, CloseFrame)
    /\ \E ok \in BOOLEAN :
         wireOut' = IF ok THEN Append(wireOut, CloseFrame) ELSE wireOut
    /\ cpc' = "done"
    /\ UNCHANGED <<cfn, request, authHeader, connOpen, reads, result,
                   readLog,
                   notConnVars>>

ConnNext ==
    \/ BuildUpgradeRequest
    \/ TcpConnect
    \/ Handshake
    \/ SendRequest
    \/ ReadResponse
    \/ SendClose

SpecConn == ConnInit /\ [][ConnNext]_vars

IsSubSeq(a, b) ==
    \E f \in [DOMAIN a -> DOMAIN b] :
        /\ \A i \in DOMAIN a : a[i] = b[f[i]]
        /\ \A i, j \in DOMAIN a : i < j => f[i] < f[j]

\* C10: on an established connection ws_connect_send hands exactly one
\* text frame (the request) to the socket, reads at most one frame and only
\* after that send succeeded, then hands exactly one Close frame with the
\* normal-closure code and the reason "Complete" to the socket, and nothing
\* after it; the Close is sent in every outcome: request answered, request
\* send failed, no response.  A send the socket refuses puts no frame on the
\* wire, so the frames that go out are a subsequence of <<Text, Close>>.
C10_OneTextThenClose ==
    /\ Len(sendCalls) <= 2
    /\ \A i \in DOMAIN sendCalls : sendCalls[i].kind = "Close" => i = Len(sendCalls)
    /\ IsSubSeq(wireOut, sendCalls)
    /\ reads <= 1
    /\ reads = 1 => wireOut # <<>> /\ wireOut[1] = TextFrame(request.message)
    /\ sendCalls # <<>> => connOpen
    /\ result # None => reads = 1
    /\ (cpc = "done" /\ connOpen) =>
         sendCalls = <<TextFrame(request.message), CloseFrame>>

\* The outcome "request send failed": the Close was still sent.
C10_Witness ==
    /\ cpc = "done" /\ connOpen
    /\ reads = 0 /\ result = None
    /\ Len(sendCalls) = 2 /\ sendCalls[2] = CloseFrame
    /\ wireOut = <<CloseFrame>>

----------------------------------------------------------------------------
(* The bounded-repeat tests of main.rs: test_send_new_message_repeat and   *)
(* test_get_users_repeat.  Both open one connection with                   *)
(* edge_view::client::ws_connect(..).await.unwrap() and loop over it.      *)

number_of_iterations == 3

RepeatTests == {"test_send_new_message_repeat", "test_get_users_repeat"}

\* What each repeat test sends on every iteration, and where.
RepeatRequest(fn) ==
    IF fn = "test_send_new_message_repeat"
    THEN [path |-> "/send", test_name |-> "Send New Message Repeat",
          message |-> build_new_message_request, validator |-> "none"]
    ELSE [path |-> "/users", test_name |-> "Get Users Repeat",
          message |-> get_users_message, validator |-> "none"]

RepeatInit ==
    /\ cpc = "start"
    /\ cfn \in RepeatTests
    /\ request = RepeatRequest(cfn)
    /\ authHeader = None /\ connOpen = FALSE
    /\ sendCalls = <<>> /\ wireOut = <<>> /\ reads = 0 /\ result = None
    /\ readLog = <<>>
    /\ lpc = "repeat" /\ args = None /\ test_list = <<>>
    /\ test_status = None /\ total_tests = 0 /\ passed_tests = 0
    /\ iteration = 0 /\ number_of_successes = 0
    /\ ErrIdle /\ ReqIdle /\ RespIdle /\ RateIdle /\ TokenIdle /\ KwIdle
    /\ SchemaIdle /\ IssueIdle

\* Variant: a failed send leaves the loop.
Mut_RepeatSend_abort ==
    /\ cpc = "send" /\ iteration < number_of_iterations
    /\ sendCalls' = Append(sendCalls, TextFrame(request.message))
    /\ \E ok \in BOOLEAN :
         IF ok
         THEN /\ wireOut' = Append(wireOut, TextFrame(request.message))
              /\ cpc' = "read"
              /\ UNCHANGED iteration
         ELSE /\ wireOut' = wireOut
              /\ iteration' = number_of_iterations
              /\ cpc' = "send"
    /\ UNCHANGED <<cfn, request, authHeader, connOpen, reads, result,
                   readLog,
                   lpc, args, test_list, test_status, total_tests,
                   passed_tests, number_of_successes, notConnTestVars>>

\* Loop body, first half: write.send(Message::Text(..)).  On Err the
\* iteration is over and the loop goes on.
RepeatSend ==
    /\ cpc = "send" /\ iteration < number_of_iterations
    /\ sendCalls' = Append(sendCalls, TextFrame(request.message))
    /\ \E ok \in BOOLEAN :
         IF ok
         THEN /\ wireOut' = Append(wireOut, TextFrame(request.message))
              /\ cpc' = "read"
              /\ UNCHANGED iteration
         ELSE /\ wireOut' = wireOut
              /\ iteration' = iteration + 1
              /\ cpc' = "send"
    /\ UNCHANGED <<cfn, request, authHeader, connOpen, reads, result,
                   readLog,
                   lpc, args, test_list, test_status, total_tests,
                   passed_tests, number_of_successes, notConnTestVars>>

\* Loop body, second half: read.next(); Some(Ok(payload)) counts as a
\* success, Some(Err) and None do not.
RepeatRead ==
    /\ cpc = "read"
    /\ \E o \in ReadOutcomes :
         /\ number_of_successes' =
                IF o.tag = "Ok" THEN number_of_successes + 1
                ELSE number_of_successes
         /\ readLog' = Append(readLog, o)
    /\ reads' = reads + 1
    /\ iteration' = iteration + 1
    /\ cpc' = "send"
    /\ UNCHANGED <<cfn, request, authHeader, connOpen, sendCalls, wireOut,
                   result, lpc, args, test_list, test_status, total_tests,
                   passed_tests, notConnTestVars>>

\* After the loop of test_get_users_repeat: write.send(Message::Close(..)).
RepeatClose ==
    /\ cfn = "test_get_users_repeat"
    /\ cpc = "send" /\ iteration = number_of_iterations
    /\ sendCalls' = Append(sendCalls, CloseFrame)
    /\ \E ok \in BOOLEAN :
         wireOut' = IF ok THEN Append(wireOut, CloseFrame) ELSE wireOut
    /\ cpc' = "return"
    /\ UNCHANGED <<cfn, request, authHeader, connOpen, reads, result,
                   readLog,
                   testVars, notConnTestVars>>

\* The verdict and the return.  test_send_new_message_repeat comes here
\* straight from the loop.
RepeatReturn ==
    /\ \/ cpc = "return"
       \/ /\ cfn = "test_send_new_message_repeat"
          /\ cpc = "send" /\ iteration = number_of_iterations
    /\ test_status' = (number_of_successes = number_of_iterations)
    /\ cpc' = "done"
    /\ UNCHANGED <<cfn, request, authHeader, connOpen, sendCalls, wireOut,
                   reads, result, readLog, lpc, args, test_list, total_tests,
                   passed_tests, iteration, number_of_successes,
                   notConnTestVars>>

RepeatNext ==
    \/ BuildUpgradeRequest
    \/ TcpConnect
    \/ Handshake
    \/ RepeatSend
    \/ RepeatRead
    \/ RepeatClose
    \/ RepeatReturn

SpecRepeat == RepeatInit /\ [][RepeatNext]_vars

TextCalls(calls) == Len(SelectSeq(calls, LAMBDA f : f.kind = "Text"))

\* C11: in a bounded-repeat test a failed iteration (send error, read
\* error, end of stream) does not end the loop: once the connection is open
\* the test returns only after exactly 3 request sends on that connection,
\* the success counter never exceeds the iterations run, and the verdict is
\* "passed" only if all 3 iterations were answered.
C11_RepeatRunsAllIterations ==
    /\ iteration <= number_of_iterations
    /\ number_of_successes <= iteration
    /\ number_of_successes <= reads /\ reads <= iteration
    /\ TextCalls(sendCalls) = iteration + (IF cpc = "read" THEN 1 ELSE 0)
    /\ cpc \in {"return", "done"} /\ connOpen =>
         /\ iteration = 3
         /\ TextCalls(sendCalls) = 3
    /\ cpc = "done" /\ connOpen =>
         /\ test_status = (number_of_successes = 3)
         /\ test_status = TRUE => reads = 3 /\ TextCalls(wireOut) = 3

\* One send failed, the two other iterations were answered, the test failed.
C11_Witness ==
    /\ cpc = "done" /\ connOpen
    /\ TextCalls(sendCalls) = 3 /\ TextCalls(wireOut) = 2
    /\ number_of_successes = 2
    /\ test_status = FALSE

\* C12: every bounded-repeat test that returns has sent, as its last
\* frame on the connection, a Close frame with the normal-closure code.
C12_RepeatEndsWithClose ==
    (lpc = "repeat" /\ cpc = "done" /\ connOpen) =>
        /\ sendCalls # <<>>
        /\ sendCalls[Len(sendCalls)].kind = "Close"
        /\ sendCalls[Len(sendCalls)].code = "Normal"

----------------------------------------------------------------------------
(* main: process_arguments builds the test list from the flags and         *)
(* run_test_list runs run_test on each case, one connection per case.      *)

TOPIC_USERS           == "/users"
TOPIC_MESSAGES        == "/messages"
TOPIC_SEARCH_MESSAGES == "/search"
TOPIC_SEND_MESSAGE    == "/send"

\* The flags main.rs reads from cli::Args, and the two of cli.rs it never
\* reads (spin_client, test_get_users_and_listen).
ArgsSet ==
    [test_create_message : BOOLEAN, test_get_messages : BOOLEAN,
     test_get_users : BOOLEAN, test_search_messages : BOOLEAN,
     test_all : BOOLEAN,
     spin_client : {None, Some(<<"/users">>)},
     test_get_users_and_listen : BOOLEAN]

\* Variant: with no test flag the Get Users case is run.
Mut_process_arguments_default(config) ==
    LET l == (IF config.test_create_message \/ config.test_all
              THEN <<CreateMessageCase>> ELSE <<>>)
             \o (IF config.test_get_messages \/ config.test_all
                 THEN <<GetMessagesCase>> ELSE <<>>)
             \o (IF config.test_get_users \/ config.test_all
                 THEN <<GetUsersCase>> ELSE <<>>)
             \o (IF config.test_search_messages \/ config.test_all
                 THEN <<SearchMessagesCase>> ELSE <<>>)
    IN  IF l = <<>> THEN <<GetUsersCase>> ELSE l

\* Variant: the Get Users case is pushed before the Get Messages case.
Mut_process_arguments_order(config) ==
    (IF config.test_create_message \/ config.test_all
     THEN <<CreateMessageCase>> ELSE <<>>)
    \o (IF config.test_get_users \/ config.test_all
        THEN <<GetUsersCase>> ELSE <<>>)
    \o (IF config.test_get_messages \/ config.test_all
        THEN <<GetMessagesCase>> ELSE <<>>)
    \o (IF config.test_search_messages \/ config.test_all
        THEN <<SearchMessagesCase>> ELSE <<>>)

process_arguments(config) ==
    (IF config.test_create_message \/ config.test_all
     THEN <<CreateMessageCase>> ELSE <<>>)
    \o (IF config.test_get_messages \/ config.test_all
        THEN <<GetMessagesCase>> ELSE <<>>)
    \o (IF config.test_get_users \/ config.test_all
        THEN <<GetUsersCase>> ELSE <<>>)
    \o (IF config.test_search_messages \/ config.test_all
        THEN <<SearchMessagesCase>> ELSE <<>>)

\* Message::into_text: the payload of a text frame; a ping without data and
\* a close frame give their (empty) text, which is not JSON; the binary
\* frame of PeerFrames stands for bytes that are not UTF-8.
into_text(m) ==
    CASE m.kind = "Text"   -> [ok |-> TRUE, val |-> m.payload]
      [] m.kind = "Binary" -> [ok |-> FALSE]
      [] OTHER             -> [ok |-> TRUE, val |-> JInvalid]

create_message_validator(response) ==
    SendNewMessageResponse_from_json(response).ok
get_messages_validator(response) ==
    GetMessagesResponse_try_from_json(response).ok
get_users_validator(response) ==
    GetUsersResponse_try_from_json(response).ok
search_messages_validator(response) ==
    SearchMessagesResponse_from_json(response).ok

\* Calling the fn pointer of a test case.
CallValidator(name, response) ==
    CASE name = "create_message_validator"  -> create_message_validator(response)
      [] name = "get_messages_validator"    -> get_messages_validator(response)
      [] name = "get_users_validator"       -> get_users_validator(response)
      [] name = "search_messages_validator" -> search_messages_validator(response)

\* run_test, after ws_connect_send has returned `response`.
run_test_status(response, validator) ==
    IF response = None THEN FALSE
    ELSE IF ~into_text(response.v).ok THEN FALSE
    ELSE CallValidator(validator, into_text(response.v).val)

ListInit ==
    /\ lpc = "args"
    /\ args \in ArgsSet
    /\ test_list = <<>> /\ test_status = None
    /\ total_tests = 0 /\ passed_tests = 0
    /\ iteration = 0 /\ number_of_successes = 0
    /\ ConnIdle
    /\ ErrIdle /\ ReqIdle /\ RespIdle /\ RateIdle /\ TokenIdle /\ KwIdle
    /\ SchemaIdle /\ IssueIdle

\* main: cli::Args::parse(), process_arguments(args.clone())
ProcessArguments ==
    /\ lpc = "args"
    /\ test_list' = process_arguments(args)
    /\ lpc' = "list"
    /\ UNCHANGED <<args, test_status, total_tests, passed_tests, iteration,
                   number_of_successes, connVars, notConnTestVars>>

\* Variant: the list is run from its end.
Mut_RunTest_from_end ==
    /\ lpc = "list" /\ test_list # <<>>
    /\ request' = test_list[Len(test_list)]
    /\ test_list' = SubSeq(test_list, 1, Len(test_list) - 1)
    /\ cfn' = "main" /\ cpc' = "start"
    /\ authHeader' = None /\ connOpen' = FALSE
    /\ sendCalls' = <<>> /\ wireOut' = <<>> /\ reads' = 0 /\ result' = None
    /\ readLog' = <<>>
    /\ lpc' = "running"
    /\ UNCHANGED <<args, test_status, total_tests, passed_tests, iteration,
                   number_of_successes, notConnTestVars>>

\* run_test_list takes the next case; run_test calls ws_connect_send of
\* main.rs, which opens a new connection.
RunTest ==
    /\ lpc = "list" /\ test_list # <<>>
    /\ request' = Head(test_list)
    /\ test_list' = Tail(test_list)
    /\ cfn' = "main" /\ cpc' = "start"
    /\ authHeader' = None /\ connOpen' = FALSE
    /\ sendCalls' = <<>> /\ wireOut' = <<>> /\ reads' = 0 /\ result' = None
    /\ readLog' = <<>>
    /\ lpc' = "running"
    /\ UNCHANGED <<args, test_status, total_tests, passed_tests, iteration,
                   number_of_successes, notConnTestVars>>

\* ws_connect_send has returned: run_test computes the verdict and
\* run_test_list counts it.
FinishTest ==
    /\ lpc = "running" /\ cpc = "done"
    /\ test_status' = run_test_status(result, request.validator)
    /\ passed_tests' = IF test_status' THEN passed_tests + 1 ELSE passed_tests
    /\ total_tests' = total_tests + 1
    /\ lpc' = "list" /\ cpc' = "off"
    /\ UNCHANGED <<cfn, request, authHeader, connOpen, sendCalls, wireOut,
                   reads, result, readLog, args, test_list, iteration,
                   number_of_successes, notConnTestVars>>

\* A panic inside ws_connect_send unwinds through run_test, run_test_list
\* and main: nothing catches it.
PanicEscapes ==
    /\ lpc = "running" /\ cpc = "panicked"
    /\ lpc' = "aborted"
    /\ UNCHANGED <<args, test_list, test_status, total_tests, passed_tests,
                   iteration, number_of_successes, connVars,
                   notConnTestVars>>

\* The loop is over: "Tests Passed: {}/{}".
ListSummary ==
    /\ lpc = "list" /\ test_list = <<>>
    /\ lpc' = "finished"
    /\ UNCHANGED <<args, test_list, test_status, total_tests, passed_tests,
                   iteration, number_of_successes, connVars,
                   notConnTestVars>>

ListNext ==
    \/ ProcessArguments
    \/ RunTest
    \/ BuildUpgradeRequest
    \/ TcpConnect
    \/ Handshake
    \/ SendRequest
    \/ ReadResponse
    \/ SendClose
    \/ FinishTest
    \/ PanicEscapes
    \/ ListSummary

SpecList == ListInit /\ [][ListNext]_vars

NoTestFlag(config) ==
    /\ ~config.test_create_message /\ ~config.test_get_messages
    /\ ~config.test_get_users /\ ~config.test_search_messages
    /\ ~config.test_all

\* C13: whatever the flags, main runs only the single-request-then-close
\* test cases of process_arguments through ws_connect_send (never a repeat
\* test, never the spin client), each on a connection of its own with at
\* most one request; with no test flag set the list is empty and no
\* connection is opened.
C13_OnlySingleRequestCases ==
    /\ \A k \in DOMAIN test_list : test_list[k] \in TestCases
    /\ cfn \in {"none", "main"}
    /\ lpc = "running" =>
         /\ request \in TestCases
         /\ TextCalls(sendCalls) <= 1 /\ Len(sendCalls) <= 2
    /\ (lpc # "args" /\ NoTestFlag(args)) =>
         /\ test_list = <<>> /\ total_tests = 0
         /\ cpc = "off" /\ authHeader = None /\ sendCalls = <<>>

\* No test flag, both unread flags set: nothing was run.
C13_Witness ==
    /\ lpc = "finished" /\ NoTestFlag(args)
    /\ args.spin_client # None /\ args.test_get_users_and_listen
    /\ total_tests = 0 /\ cpc = "off"

\* C16: a failure inside one connection's exchange never abandons the
\* test list: a panic does not escape ws_connect_send.
C16_FailureContained == lpc # "aborted"

RequestKeysOf(path) ==
    CASE path = TOPIC_SEND_MESSAGE    -> Range(SendRequestKeys)
      [] path = TOPIC_MESSAGES        -> Range(UsersRequestKeys)
      [] path = TOPIC_USERS           -> Range(UsersRequestKeys)
      [] path = TOPIC_SEARCH_MESSAGES -> Range(SearchRequestKeys)

DecodesAsRequestOf(path, message) ==
    CASE path = TOPIC_SEND_MESSAGE    -> SendNewMessageRequest_try_from_json(message).ok
      [] path = TOPIC_MESSAGES        -> GetMessagesRequest_try_from_json(message).ok
      [] path = TOPIC_USERS           -> GetUsersRequest_try_from_json(message).ok
      [] path = TOPIC_SEARCH_MESSAGES -> SearchMessagesRequest_try_from_json(message).ok

ValidatorOf(path) ==
    CASE path = TOPIC_SEND_MESSAGE    -> "create_message_validator"
      [] path = TOPIC_MESSAGES        -> "get_messages_validator"
      [] path = TOPIC_USERS           -> "get_users_validator"
      [] path = TOPIC_SEARCH_MESSAGES -> "search_messages_validator"

\* A response of the operation served at `path`.
SampleResponseOf(path) ==
    CASE path = TOPIC_SEND_MESSAGE ->
           SendNewMessageResponse_try_to_json(SendNewMessageResponse_new_204)
      [] path = TOPIC_MESSAGES ->
           GetMessagesResponse_try_to_json(
               [classification |-> UNCLASSIFIED, messages |-> <<PlainMessage>>])
      [] path = TOPIC_USERS ->
           GetUsersResponse_try_to_json([user_names |-> <<"alice">>])
      [] path = TOPIC_SEARCH_MESSAGES ->
           SearchMessagesResponse_try_to_json([messages |-> <<PlainMessage>>])

Routed(t) ==
    /\ t.path \in {TOPIC_SEND_MESSAGE, TOPIC_MESSAGES, TOPIC_USERS,
                   TOPIC_SEARCH_MESSAGES}
    /\ t.message.t = "obj"
    /\ DOMAIN t.message.v = RequestKeysOf(t.path)
    /\ {"domainId", "roomName"} \subseteq DOMAIN t.message.v
    /\ DecodesAsRequestOf(t.path, t.message)
    /\ t.validator = ValidatorOf(t.path)
    /\ CallValidator(t.validator, SampleResponseOf(t.path))

\* C18: every test case on the list, and the one being run, pairs its
\* endpoint path with the request of that operation (encoded with exactly
\* that request's wire keys, domainId and roomName among them) and with the
\* validator that decodes that operation's response.
C18_RoutingTable ==
    /\ \A k \in DOMAIN test_list : Routed(test_list[k])
    /\ lpc = "running" => Routed(request)

\* All four cases are on the list, in the order of process_arguments.
C18_Witness ==
    /\ lpc = "list" /\ total_tests = 0
    /\ test_list = <<CreateMessageCase, GetMessagesCase, GetUsersCase,
                     SearchMessagesCase>>

----------------------------------------------------------------------------
(* Claims on one exchange (SpecConn) *)

\* C14: on every connection path the Authorization header with the bearer
\* token is on the upgrade request before the handshake is attempted, and
\* on a connection whose handshake did not succeed nothing is sent or read.
C14_AuthBeforeHandshake ==
    /\ cpc \notin {"off", "start"} => authHeader = Some("Bearer jwt")
    /\ ~connOpen => (sendCalls = <<>> /\ wireOut = <<>> /\ reads = 0
                     /\ result = None)

\* test(stream): the upgrade was rejected and the function returned.
C14_Witness ==
    /\ cfn = "test" /\ cpc = "done" /\ ~connOpen
    /\ authHeader = Some("Bearer jwt")
    /\ sendCalls = <<>>

\* The client's own steps are taken when they can be.  Nothing makes the
\* peer answer: read.next() is awaited without a timeout, so ReadResponse
\* has no fairness.
SpecConnLive ==
    /\ ConnInit /\ [][ConnNext]_vars
    /\ WF_vars(BuildUpgradeRequest) /\ WF_vars(TcpConnect)
    /\ WF_vars(Handshake) /\ WF_vars(SendRequest) /\ WF_vars(SendClose)

\* C17: once the request frame is sent, ws_connect_send eventually sends
\* its Close frame and returns, whatever the peer does.
C17_ExchangeTerminates == (cpc = "read") ~> (cpc = "done")

----------------------------------------------------------------------------
(* Claim on the classification of envelopes (SpecErr) *)

\* C19: every envelope has a classification: the envelopes built locally
\* (Error::new_429 for a 429, Error::new_unclassified_message when the body
\* cannot be converted) carry "UNCLASSIFIED", the envelopes built from an
\* upstream 400 or 404 body carry the classification string of that body
\* unchanged, and the encoded envelope carries the same string.
C19_ClassificationPresent ==
    Built =>
        /\ "classification" \in DOMAIN envelope
        /\ parsed.tag \in {"Failure429", "Err"} =>
             envelope.classification = "UNCLASSIFIED"
        /\ parsed.tag = "Failure400" =>
             envelope.classification = Upstream("classification", ErrorCode400Keys)
        /\ parsed.tag = "Failure404" =>
             envelope.classification = Upstream("classification", ErrorCode404Keys)
        /\ epc = "sent" =>
             /\ "classification" \in DOMAIN wire.v
             /\ wire.v["classification"] = JStr(envelope.classification)

\* An upstream 404 marked SECRET reaches the client marked SECRET.
C19_Witness ==
    /\ epc = "sent" /\ parsed.tag = "Failure404"
    /\ Upstream("classification", ErrorCode404Keys) = "SECRET"
    /\ wire.v["classification"] = JStr("SECRET")

----------------------------------------------------------------------------
(* The token: build_test_claim reads the clock three times, build_jwt      *)
(* signs the claims and the result goes on the upgrade request.  The clock *)
(* is read in seconds and does not go back.                                *)

\* Seconds a token lives: time::Duration::from_secs(3600).as_secs()
TOKEN_LIFETIME == 3600

\* Latest clock value at the start.
MaxStartTime == 9

\* Most seconds that pass between two consecutive readings of the clock.
MaxClockStep == 1

\* Variant: exp is the clock reading itself.
Mut_build_test_claim_no_lifetime(t_exp, t_iat, t_auth) ==
    [exp |-> t_exp, iat |-> t_iat, auth_time |-> t_auth]

\* build_test_claim, given the three readings of
\* jsonwebtoken::get_current_timestamp() in the order the struct literal
\* makes them: exp, iat, auth_time.
build_test_claim(t_exp, t_iat, t_auth) ==
    [exp |-> t_exp + TOKEN_LIFETIME, iat |-> t_iat, auth_time |-> t_auth]

TokenInit ==
    /\ tpc = "start"
    /\ now \in 0..MaxStartTime
    /\ issueTime = 0 /\ claims = None /\ attachedAt = 0
    /\ ErrIdle /\ ReqIdle /\ RespIdle /\ RateIdle /\ ConnIdle /\ TestIdle
    /\ KwIdle /\ SchemaIdle /\ IssueIdle

BuildTestClaim ==
    /\ tpc = "start"
    /\ \E d1, d2, d3 \in 0..MaxClockStep :
         /\ issueTime' = now + d1
         /\ claims' = build_test_claim(now + d1, now + d1 + d2,
                                       now + d1 + d2 + d3)
         /\ now' = now + d1 + d2 + d3
    /\ tpc' = "built"
    /\ UNCHANGED <<attachedAt, notTokenVars>>

\* build_jwt encodes the claims; the value "Bearer <jwt>" is inserted as
\* the Authorization header.
AttachToken ==
    /\ tpc = "built"
    /\ \E d \in 0..MaxClockStep :
         /\ now' = now + d
         /\ attachedAt' = now + d
    /\ tpc' = "attached"
    /\ UNCHANGED <<issueTime, claims, notTokenVars>>

TokenNext ==
    \/ BuildTestClaim
    \/ AttachToken

SpecToken == TokenInit /\ [][TokenNext]_vars

\* C15: every claims set built by build_test_claim has exp > iat (exp is
\* the clock reading at issue plus 3600 seconds, iat a reading made no
\* earlier), and when the token is attached the clock is within [iat, exp).
C15_ExpAfterIat ==
    /\ tpc \in {"built", "attached"} =>
         /\ claims.exp > claims.iat
         /\ claims.exp = issueTime + 3600
         /\ claims.iat >= issueTime
         /\ claims.auth_time >= claims.iat
    /\ tpc = "attached" =>
         /\ claims.iat <= attachedAt
         /\ attachedAt < claims.exp

\* A second passed between the reading for exp and the reading for iat,
\* and another before the token was attached.
C15_Witness ==
    /\ tpc = "attached"
    /\ claims.iat = issueTime + 1
    /\ attachedAt > claims.iat

----------------------------------------------------------------------------
(* KeywordFilter::try_from_vec.  A query string is modelled as the         *)
(* sequence of the words that format!("{} {}", ..) joins with one space.   *)

\* Longest keyword list given.
MaxKeywordList == 4

KeywordPool == {"alpha", "beta", "gamma"}

KeywordLists ==
    UNION {[1..n -> KeywordPool] : n \in 0..MaxKeywordList}

KeywordFilter_try_from_vec(kw) ==
    IF kw = <<>>
    THEN CommonError("No keywords to use.")
    ELSE LET combined_keywords == kw[Len(kw)]
             others            == SubSeq(kw, 1, Len(kw) - 1)
         IN  [tag   |-> "Ok",
              query |-> IF Len(others) > 1
                        THEN <<combined_keywords>> \o others
                        ELSE <<combined_keywords>>]

KwInit ==
    /\ kpc = "input"
    /\ keywords \in KeywordLists
    /\ filter = None
    /\ ErrIdle /\ ReqIdle /\ RespIdle /\ RateIdle /\ ConnIdle /\ TestIdle
    /\ TokenIdle /\ SchemaIdle /\ IssueIdle

TryFromVec ==
    /\ kpc = "input"
    /\ filter' = KeywordFilter_try_from_vec(keywords)
    /\ kpc' = "done"
    /\ UNCHANGED <<keywords, notKwVars>>

KwNext == TryFromVec

SpecKw == KwInit /\ [][KwNext]_vars

\* C20: for a non-empty keyword list every keyword occurs in the query
\* built by KeywordFilter::try_from_vec; for the empty list the result is
\* the error "No keywords to use.".
C20_AllKeywordsInQuery ==
    kpc = "done" =>
        IF keywords = <<>>
        THEN filter.tag = "Err" /\ ErrToString(filter) = "No keywords to use."
        ELSE /\ filter.tag = "Ok"
             /\ Range(keywords) \subseteq Range(filter.query)

----------------------------------------------------------------------------
(* ChatSurfer/messages.rs: the values the schema constructors build and    *)
(* the messages ChatMessageSchema::try_from_json accepts.                  *)

\* RegionSchema::test(source, seed)
RegionSchema_test(source, seed) ==
    [abbreviation |-> source, bounds |-> <<seed>>, description |-> source,
     name |-> source, region_type |-> source]

\* GeoTagSchema::test(source, seed)
GeoTagSchema_test(source, seed) ==
    [anchor_end   |-> 0,
     anchor_start |-> 0,
     anchor_text  |-> source,
     confidence   |-> "0.0",
     location     |-> LocationSchema_test(seed),
     regions      |-> <<RegionSchema_test(source, seed)>>,
     type         |-> source]

\* ChatMessageSchema::test(source, seed)
ChatMessageSchema_test(source, seed) ==
    [classification |-> "UNCLASSIFIED",
     domain_id      |-> source,
     geo_tags       |-> Some(<<GeoTagSchema_test(source, seed)>>),
     id             |-> source,
     room_name      |-> source,
     sender         |-> source,
     text           |-> source,
     thread_id      |-> Some(source),
     timestamp      |-> source,
     user_id        |-> source,
     private        |-> FALSE]

\* ChatMessageSchema::try_from_json: serde_json::from_str with a context.
ChatMessageSchema_try_from_json(json) ==
    LET cause == ChatMessageCause(json) IN
    IF cause = "ok"
    THEN [ok |-> TRUE, val |-> ChatMessageOf(json)]
    ELSE [ok |-> FALSE,
          err |-> AnyhowError("Unable to create ChatMessageSchema struct from String",
                              "", None, cause)]

Seeds   == {"0.5", "1.0", "NaN"}
Sources == {"", "Paris"}

\* The offsets and texts of the messages given to try_from_json.
AnchorOffsets == {-1, 0, 3, 5, 9}
AnchorTexts   == {"", "Paris"}

TaggedMessage(s, e, x, l) ==
    [classification |-> "UNCLASSIFIED", domain_id |-> TEST_DOMAIN,
     geo_tags |-> Some(<<[anchor_end |-> e, anchor_start |-> s,
                          anchor_text |-> "Paris", confidence |-> "0.5",
                          location |-> l, regions |-> <<>>,
                          type |-> "place"]>>),
     id |-> "m-1", room_name |-> TEST_ROOM, sender |-> "alice", text |-> x,
     thread_id |-> None, timestamp |-> "2024-01-01T00:00:00Z",
     user_id |-> "u-1", private |-> FALSE]

\* JSON texts: well-formed messages with every pair of offsets, a message
\* without tags, and texts that are no ChatMessageSchema.
MessageTexts ==
    {ChatMessageJson(TaggedMessage(s, e, x, LocationSchema_new_polygon)) :
        s \in AnchorOffsets, e \in AnchorOffsets, x \in AnchorTexts}
      \cup {ChatMessageJson(PlainMessage),
            JInvalid,
            JObj([text |-> JStr("Paris")]),
            JObj([x \in DOMAIN ChatMessageJson(PlainMessage).v |->
                    IF x = "geoTags"
                    THEN JArr(<<JObj([anchorStart |-> JStr("0")])>>)
                    ELSE ChatMessageJson(PlainMessage).v[x]])}

SchemaInit ==
    /\ spc = "input"
    /\ \/ sHow = "LocationSchema::new_polygon" /\ sIn = None
       \/ sHow = "LocationSchema::test" /\ sIn \in Seeds
       \/ /\ sHow = "ChatMessageSchema::test"
          /\ sIn \in [source : Sources, seed : Seeds]
       \/ sHow = "ChatMessageSchema::try_from_json" /\ sIn \in MessageTexts
    /\ sOut = None
    /\ ErrIdle /\ ReqIdle /\ RespIdle /\ RateIdle /\ ConnIdle /\ TestIdle
    /\ TokenIdle /\ KwIdle /\ IssueIdle

NewPolygon ==
    /\ spc = "input" /\ sHow = "LocationSchema::new_polygon"
    /\ sOut' = LocationSchema_new_polygon
    /\ spc' = "built"
    /\ UNCHANGED <<sHow, sIn, notSchemaVars>>

LocationTest ==
    /\ spc = "input" /\ sHow = "LocationSchema::test"
    /\ sOut' = LocationSchema_test(sIn)
    /\ spc' = "built"
    /\ UNCHANGED <<sHow, sIn, notSchemaVars>>

ChatMessageTest ==
    /\ spc = "input" /\ sHow = "ChatMessageSchema::test"
    /\ sOut' = ChatMessageSchema_test(sIn.source, sIn.seed)
    /\ spc' = "built"
    /\ UNCHANGED <<sHow, sIn, notSchemaVars>>

ChatMessageTryFromJson ==
    /\ spc = "input" /\ sHow = "ChatMessageSchema::try_from_json"
    /\ sOut' = ChatMessageSchema_try_from_json(sIn)
    /\ spc' = "decoded"
    /\ UNCHANGED <<sHow, sIn, notSchemaVars>>

SchemaNext ==
    \/ NewPolygon
    \/ LocationTest
    \/ ChatMessageTest
    \/ ChatMessageTryFromJson

SpecSchema == SchemaInit /\ [][SchemaNext]_vars

\* The LocationSchema values a state holds: the one built, or the ones in
\* the tags of the message built or decoded.
HeldMessages ==
    IF sHow = "ChatMessageSchema::test" /\ spc = "built" THEN {sOut}
    ELSE IF spc = "decoded" /\ sOut.ok THEN {sOut.val}
    ELSE {}

HeldGeoTags ==
    UNION {IF m.geo_tags = None THEN {}
           ELSE {[tag |-> m.geo_tags.v[i], text |-> m.text] :
                    i \in DOMAIN m.geo_tags.v} : m \in HeldMessages}

BuiltLocations ==
    IF spc = "built" /\ sHow \in {"LocationSchema::new_polygon",
                                  "LocationSchema::test"}
    THEN {sOut}
    ELSE IF spc = "built" THEN {g.tag.location : g \in HeldGeoTags}
    ELSE {}

\* C21: every LocationSchema built by the constructors has the type
\* discriminator of its aoi variant: Polygon with Polygon, Point with Point.
\* LocationSchema::test pairs type Point with a Polygon aoi.
C21_TypeMatchesAoi ==
    \A l \in BuiltLocations : l.type = l.aoi.variant

\* C22: every GeoTag in a ChatMessage that was constructed or decoded has
\* anchor_start <= anchor_end with both offsets inside the message text.
\* try_from_json checks the types of the two offsets and nothing else.
C22_AnchorsInText ==
    \A g \in HeldGeoTags :
        /\ 0 <= g.tag.anchor_start
        /\ g.tag.anchor_start <= g.tag.anchor_end
        /\ g.tag.anchor_end <= Len(g.text)

----------------------------------------------------------------------------
(* The identifier claims of the tokens built for successive connections.   *)
(* Every ws_connect / ws_connect_send calls build_jwt, which calls         *)
(* build_test_claim.  Uuid::new_v4 returns a random value: any value not   *)
(* returned before.                                                        *)

MaxConnections == 2

UuidPool == 1..(3 * MaxConnections)

JTI == "e5f3e658-629a-42ff-a63f-20a50afa61d6"

\* build_test_claim: jti, nonce, session_state, sid
build_test_claim_ids(u1, u2, u3) ==
    [jti |-> JTI, nonce |-> u1, session_state |-> u2, sid |-> u3]

IssueInit ==
    /\ tokens = <<>> /\ drawn = {}
    /\ ErrIdle /\ ReqIdle /\ RespIdle /\ RateIdle /\ ConnIdle /\ TestIdle
    /\ TokenIdle /\ KwIdle /\ SchemaIdle

\* One connection: build_jwt(alg) -> build_test_claim()
BuildJwt ==
    /\ Len(tokens) < MaxConnections
    /\ \E u1 \in UuidPool \ drawn :
       \E u2 \in UuidPool \ (drawn \cup {u1}) :
       \E u3 \in UuidPool \ (drawn \cup {u1, u2}) :
         /\ tokens' = Append(tokens, build_test_claim_ids(u1, u2, u3))
         /\ drawn' = drawn \cup {u1, u2, u3}
    /\ UNCHANGED notIssueVars

IssueNext == BuildJwt

SpecIssue == IssueInit /\ [][IssueNext]_vars

\* C23: two tokens built for two connections differ in nonce, in session
\* identifier and in jti.  The jti is the same string literal in every
\* token.
C23_FreshIdentifiers ==
    \A i, j \in DOMAIN tokens :
        i # j => /\ tokens[i].nonce # tokens[j].nonce
                 /\ tokens[i].session_state # tokens[j].session_state
                 /\ tokens[i].jti # tokens[j].jti

----------------------------------------------------------------------------
(* What the exchanges read *)

\* The text frames among the outcomes of read.next().
TextReads(log) ==
    Len(SelectSeq(log, LAMBDA o : o.tag = "Ok" /\ o.frame.kind = "Text"))

\* C24: a bounded-repeat iteration counts as a success only when it read a
\* text frame: the success counter never exceeds the number of text frames
\* read.  The loop counts every Ok(payload), whatever the frame.
C24_SuccessNeedsText ==
    lpc = "repeat" => number_of_successes <= TextReads(readLog)

\* The frame ws_connect_send returned is a text frame holding an error
\* envelope {classification, code, message}.
ResultIsEnvelope ==
    /\ result # None
    /\ result.v.kind = "Text"
    /\ Error_from_json(result.v.payload).ok

\* C25: no validator accepts an error envelope: a test whose response was
\* an envelope is reported as failed.  create_message_validator reads the
\* envelope as a SendNewMessageResponse (it has a message string).
C25_EnvelopeFails ==
    (lpc \in {"list", "finished"} /\ total_tests > 0 /\ ResultIsEnvelope)
        => test_status = FALSE

----------------------------------------------------------------------------
(* The list process_arguments builds *)

\* The flag of cli::Args that asks for a test case.
OwnFlag(config, c) ==
    CASE c = CreateMessageCase  -> config.test_create_message
      [] c = GetMessagesCase    -> config.test_get_messages
      [] c = GetUsersCase       -> config.test_get_users
      [] c = SearchMessagesCase -> config.test_search_messages

CaseOrder ==
    <<CreateMessageCase, GetMessagesCase, GetUsersCase, SearchMessagesCase>>

\* C26: right after process_arguments a test case is in the list iff its
\* own flag or test_all is set, and the cases stand in the order Create
\* Message, Get Messages, Get Users, Search Messages, each at most once.
C26_ExactSelection ==
    (lpc = "list" /\ total_tests = 0) =>
        /\ \A i \in DOMAIN test_list : test_list[i] \in TestCases
        /\ \A c \in TestCases :
             (c \in Range(test_list)) <=> (OwnFlag(args, c) \/ args.test_all)
        /\ \A i, j \in DOMAIN test_list :
             i < j => IndexOf(CaseOrder, test_list[i])
                        < IndexOf(CaseOrder, test_list[j])

\* Two flags without test_all: exactly those two cases, in table order.
C26_Witness ==
    /\ lpc = "list" /\ total_tests = 0
    /\ ~args.test_all /\ args.test_search_messages /\ args.test_get_messages
    /\ ~args.test_create_message /\ ~args.test_get_users
    /\ test_list = <<GetMessagesCase, SearchMessagesCase>>

----------------------------------------------------------------------------
(* What ws_connect_send returns *)

\* The request frame was accepted by write.send.
RequestSent == wireOut # <<>> /\ wireOut[1] = TextFrame(request.message)

\* The first read.next() of the connection gave Some(Ok(frame)).
FirstReadOk == readLog # <<>> /\ readLog[1].tag = "Ok"

\* C27: ws_connect_send returns Some(frame) iff the request was sent and the
\* first read delivered a frame without error, and the frame returned is
\* that frame; in every other case it returns None, and run_test reports a
\* test whose exchange returned None as failed.
C27_SomeIffSentAndRead ==
    /\ cpc \in {"done", "off"} /\ request # None =>
         /\ (result # None) <=> (RequestSent /\ FirstReadOk)
         /\ result # None => result.v = readLog[1].frame
    /\ (lpc \in {"list", "finished"} /\ total_tests > 0 /\ result = None)
         => test_status = FALSE

\* A read error after a request that was sent: None, and the test failed.
C27_Witness ==
    /\ lpc = "list" /\ total_tests = 1
    /\ RequestSent /\ readLog = <<[tag |-> "Err"]>>
    /\ result = None /\ test_status = FALSE

----------------------------------------------------------------------------
(* The order of run_test_list *)

----------------------------------------------------------------------------
(* edge_view/client.rs: test_get_users_and_listen.  One request on /users, *)
(* then socket.next() in a loop until a Close frame or the end of the      *)
(* stream.                                                                 *)

\* How many frames the peer sends before it closes or goes away.
MaxListenReads == 3

ListenCase ==
    [path |-> "/users", test_name |-> "Get Users and Listen",
     message |-> build_users_request, validator |-> "none"]

ListenInit ==
    /\ cpc = "start"
    /\ cfn = "test_get_users_and_listen"
    /\ request = ListenCase
    /\ authHeader = None /\ connOpen = FALSE
    /\ sendCalls = <<>> /\ wireOut = <<>> /\ reads = 0 /\ result = None
    /\ readLog = <<>>
    /\ ErrIdle /\ ReqIdle /\ RespIdle /\ RateIdle /\ TestIdle
    /\ TokenIdle /\ KwIdle /\ SchemaIdle /\ IssueIdle

\* socket.send(Message::Text(build_users_request())): on Err the function
\* returns.
ListenSend ==
    /\ cpc = "send"
    /\ sendCalls' = Append(sendCalls, TextFrame(request.message))
    /\ \E ok \in BOOLEAN :
         IF ok
         THEN /\ wireOut' = Append(wireOut, TextFrame(request.message))
              /\ cpc' = "read"
         ELSE /\ wireOut' = wireOut
              /\ cpc' = "done"
    /\ UNCHANGED <<cfn, request, authHeader, connOpen, reads, result,
                   readLog, notConnVars>>

\* An outcome of socket.next() that ends the while-let loop: None, or
\* Some(Ok(Message::Close(_))) with its break.
EndsListening(o) ==
    \/ o.tag = "End"
    \/ o.tag = "Ok" /\ o.frame.kind = "Close"

\* Variant: a read error ends the loop as well.
Mut_ListenRead_stop_on_error ==
    /\ cpc = "read"
    /\ \E o \in ReadOutcomes :
         /\ EndsListening(o) \/ Len(readLog) < MaxListenReads
         /\ readLog' = Append(readLog, o)
         /\ cpc' = IF EndsListening(o) \/ o.tag = "Err" THEN "done"
                   ELSE "read"
    /\ reads' = reads + 1
    /\ UNCHANGED <<cfn, request, authHeader, connOpen, sendCalls, wireOut,
                   result, notConnVars>>

\* One turn of `while let Some(update) = socket.next().await`: a text
\* frame, any other frame and an error are logged and the loop goes on.
ListenRead ==
    /\ cpc = "read"
    /\ \E o \in ReadOutcomes :
         /\ EndsListening(o) \/ Len(readLog) < MaxListenReads
         /\ readLog' = Append(readLog, o)
         /\ cpc' = IF EndsListening(o) THEN "done" ELSE "read"
    /\ reads' = reads + 1
    /\ UNCHANGED <<cfn, request, authHeader, connOpen, sendCalls, wireOut,
                   result, notConnVars>>

ListenNext ==
    \/ BuildUpgradeRequest
    \/ TcpConnect
    \/ Handshake
    \/ ListenSend
    \/ ListenRead

SpecListen == ListenInit /\ [][ListenNext]_vars

\* C29: in listen mode the client hands exactly one frame to the socket,
\* the request, and none after it; while it is reading, nothing it has read
\* was a Close frame or the end of the stream (text frames, other frames
\* and read errors keep it reading), and once it has read a Close frame or
\* the end of the stream it reads no more: that outcome is the last one.
C29_ListenUntilClose ==
    /\ Len(sendCalls) <= 1
    /\ cpc \in {"read", "done"} /\ connOpen =>
         sendCalls = <<TextFrame(build_users_request)>>
    /\ reads = Len(readLog)
    /\ readLog # <<>> => wireOut = <<TextFrame(build_users_request)>>
    /\ \A i \in DOMAIN readLog :
         EndsListening(readLog[i]) => i = Len(readLog) /\ cpc = "done"
    /\ cpc = "read" => \A i \in DOMAIN readLog : ~EndsListening(readLog[i])
    /\ (cpc = "done" /\ readLog # <<>>) =>
         EndsListening(readLog[Len(readLog)])

\* A text frame, a read error and a ping were read and the client kept
\* listening; the Close frame that followed ended the loop.
C29_Witness ==
    /\ cpc = "done"
    /\ Len(readLog) = 4
    /\ readLog[1].tag = "Ok" /\ readLog[1].frame.kind = "Text"
    /\ readLog[2].tag = "Err"
    /\ readLog[3].tag = "Ok" /\ readLog[3].frame.kind = "Ping"
    /\ readLog[4].tag = "Ok" /\ readLog[4].frame.kind = "Close"
    /\ sendCalls = <<TextFrame(build_users_request)>>

----------------------------------------------------------------------------
(* edge_view/client.rs: spin_client(endpoint).  After ws_connect the       *)
(* function sleeps 10 s and logs, forever.  `iteration` counts the turns   *)
(* of that loop.                                                           *)

\* How many turns of the spin loop are followed.
MaxSpins == 40

SpinEndpoints == {TOPIC_USERS, TOPIC_MESSAGES, TOPIC_SEARCH_MESSAGES,
                  TOPIC_SEND_MESSAGE}

SpinInit ==
    /\ cpc = "start"
    /\ cfn = "spin_client"
    /\ \E ep \in SpinEndpoints :
         request = [path |-> ep, test_name |-> "spin_client",
                    message |-> None, validator |-> "none"]
    /\ authHeader = None /\ connOpen = FALSE
    /\ sendCalls = <<>> /\ wireOut = <<>> /\ reads = 0 /\ result = None
    /\ readLog = <<>>
    /\ lpc = "spin" /\ args = None /\ test_list = <<>>
    /\ test_status = None /\ total_tests = 0 /\ passed_tests = 0
    /\ iteration = 0 /\ number_of_successes = 0
    /\ ErrIdle /\ ReqIdle /\ RespIdle /\ RateIdle
    /\ TokenIdle /\ KwIdle /\ SchemaIdle /\ IssueIdle

\* Variant: the loop is left after its first turn.
Mut_Spin_once ==
    /\ cpc \in {"send", "spinning"}
    /\ iteration < MaxSpins
    /\ iteration' = iteration + 1
    /\ cpc' = "done"
    /\ UNCHANGED <<cfn, request, authHeader, connOpen, sendCalls, wireOut,
                   reads, result, readLog, lpc, args, test_list,
                   test_status, total_tests, passed_tests,
                   number_of_successes, notConnTestVars>>

\* One turn of `loop { thread::sleep(10 s); debug(..) }`: the loop has no
\* break and no return.
Spin ==
    /\ cpc \in {"send", "spinning"}
    /\ iteration < MaxSpins
    /\ iteration' = iteration + 1
    /\ cpc' = "spinning"
    /\ UNCHANGED <<cfn, request, authHeader, connOpen, sendCalls, wireOut,
                   reads, result, readLog, lpc, args, test_list,
                   test_status, total_tests, passed_tests,
                   number_of_successes, notConnTestVars>>

SpinNext ==
    \/ BuildUpgradeRequest
    \/ TcpConnect
    \/ Handshake
    \/ Spin

SpecSpin == SpinInit /\ [][SpinNext]_vars

\* C30: once connected spin_client neither sends a frame nor reads one nor
\* returns: it is in the Some arm or in its loop.  It has returned only
\* when the connection was not established, and then no frame was sent.
C30_SpinForever ==
    /\ sendCalls = <<>> /\ wireOut = <<>> /\ readLog = <<>>
    /\ connOpen => cpc \in {"send", "spinning"}
    /\ cpc = "done" => ~connOpen
    /\ iteration > 0 => connOpen /\ cpc = "spinning"

\* The loop has gone round many times on the open connection.
C30_Witness ==
    /\ connOpen /\ cpc = "spinning" /\ iteration = MaxSpins
    /\ sendCalls = <<>>

====
